---- MODULE Spec2Model ----
(***************************************************************************)
(* Model of chimedb.dataflag: the opinion ledger (orm.DataFlagOpinion,     *)
(* client.create_opinion, client.opinion_edit) and the voting engine        *)
(* (vote.VotingJudge) working on one shared relational store.               *)
(*                                                                         *)
(* The store is shared and nothing locks it: every database statement and  *)
(* every reading of the clock, of a voting run and of a command alike, is  *)
(* one step, and the steps of the processes interleave freely.             *)
(***************************************************************************)
EXTENDS Integers, Sequences, FiniteSets, TLC

VARIABLES
    clock,          \* wall clock, whole seconds (arrow.utcnow().int_timestamp)
    opinions,       \* table DataFlagOpinion: sequence of rows, row id = index
    flags,          \* table DataFlag: sequence of rows, row id = index
    votes,          \* table DataFlagVote: sequence of rows, row id = index
    voteopinions,   \* table DataFlagVoteOpinion: set of <<vote id, opinion id>>
    clients,        \* table DataFlagClient: sequence of <<client_name, client_version>>, row id = index
    run,            \* per judge: the position and locals of its VotingJudge.vote() call
    cmd,            \* per desk: the position and locals of the command or API call in flight
    nticks, nedits, nruns,  \* counters that bound the exploration
    last            \* the latest call of the API or the command line, and its outcome

vars == <<clock, opinions, flags, votes, voteopinions, clients, run, cmd,
          nticks, nedits, nruns, last>>

----------------------------------------------------------------------------
(* Bounds of the exploration.                                              *)
MaxOpinions == 2
MaxEdits == 2
MaxTicks == 1
MaxRuns == 2
MaxOps == 3
MaxFlags == 2
MaxCalls == 3
MaxLen == 2

(* Program constants.                                                      *)
max_vote_time == 60
max_len_mode_name == 32
n_freq == 1024

None == "None"
NULL == 0 - 1       \* SQL NULL in a numeric column or aggregate

Decisions == {"good", "bad", "unsure"}     \* DataFlagOpinion.decision enum
Revisions == {"rA", "rB"}                  \* rows of DataRevision
Users == {"Alice", "Bob"}                  \* rows of MediaWikiUser
OpinionTypes == {"t1", "t2"}               \* rows of DataFlagOpinionType
VotedTypes == {"t1"}                       \* the opinion type of the opinions put to the vote
FlagTypes == {"vote"}                      \* rows of DataFlagType
LSDs == {2111, 2112}
Judges == {1}

mode_choices == {"hypnotoad"}

(* Mode names a caller may pass to VotingJudge: the registered one, one    *)
(* that is not registered, and one of 33 characters.                       *)
ModeNames == mode_choices \cup {"bender", "all-glory-to-the-hypnotoad-always"}

ClientCLI == <<"chimedb.dataflag.client", "version">>
ClientVote == <<"chimedb.dataflag.vote", "version">>

(* Clock advances: within the grace window, and past it.                   *)
TickSteps == {1, max_vote_time + 1}

----------------------------------------------------------------------------
(* Helpers on sequences.                                                   *)

RECURSIVE SeqMax(_)
SeqMax(s) ==
    IF s = <<>> THEN NULL
    ELSE LET m == SeqMax(Tail(s))
         IN IF Head(s) > m THEN Head(s) ELSE m

----------------------------------------------------------------------------
(* Opinion ledger.                                                         *)

(* Python values handed to the API: a string, or the boolean True.         *)
PyStr(s) == [py |-> "str", v |-> s]
PyTrue == [py |-> "bool", v |-> "True"]

(* None, a list and a dict of Python, and an argument the caller left out. *)
PyNone == [py |-> "NoneType", v |-> "None"]
PyList(s) == [py |-> "list", v |-> s]
PyDict(d) == [py |-> "dict", v |-> d]
Unset == [py |-> "unset", v |-> "None"]

(* str.lower and username[0].upper() + username[1:], on the names used.    *)
lower(s) == CASE s = "GOOD" -> "good" [] OTHER -> s
capitalize(s) == CASE s = "alice" -> "Alice" [] s = "mallory" -> "Mallory" [] OTHER -> s

(* The arguments of a call, and the call log: the latest call of the API   *)
(* or of the command line, its arguments and how it ended.                 *)
CallArgs(id, user, decision, type_, lsd, revision) ==
    [id |-> id, user |-> user, decision |-> decision, type |-> type_,
     lsd |-> lsd, revision |-> revision]
NoCall == [op |-> None, args |-> CallArgs(0, None, PyStr(None), None, 0, None),
           result |-> None, seq |-> 0]
Call(op, args, result) ==
    [op |-> op, args |-> args, result |-> result, seq |-> last.seq + 1]

(* The unique index of DataFlagOpinion.                                    *)
UniqueKey(o) == <<o.type, o.user, o.lsd, o.revision>>

(* A table without the unique index.                                       *)
KeyTaken_noindex(ops, key, except) == FALSE

(* Whether a row other than row `except` already holds the key.            *)
KeyTaken(ops, key, except) ==
    \E i \in 1..Len(ops) : i # except /\ UniqueKey(ops[i]) = key

(* Number of successful writes to the opinion table so far.                *)
MutCount == Len(opinions) + nedits

(* A row of DataFlagOpinion.  creation_time and last_edit are doubles: the *)
(* whole seconds are kept in creation_time and last_edit, the tenths of a  *)
(* second in creation_frac and last_edit_frac.                             *)
OpinionRow(id, user, creation_time, decision, type, lsd, revision) ==
    [id |-> id, type |-> type, user |-> user, decision |-> decision,
     creation_time |-> creation_time, last_edit |-> creation_time,
     creation_frac |-> 0, last_edit_frac |-> 0,
     revision |-> revision, lsd |-> lsd]

(* click.Choice(enum_list, case_sensitive=False) on the decision argument. *)
click_choice(value) ==
    IF lower(value) \in Decisions THEN lower(value) ELSE "BadParameter"

(* An opinion object that is bound to no row.                              *)
NoOpinion == [id |-> 0]

(* The desks at which commands are entered and the API is called: one      *)
(* process each.                                                           *)
Desks == {1, 2}

(* A command or call in flight at a desk: its arguments, the statement it  *)
(* is at (pc), the opinion object it has built (row), the fields it has    *)
(* assigned to a row it read (dirty), and what get_or_create returned: the *)
(* client row and whether the call created it.  A command that has ended   *)
(* leaves nothing behind.                                                  *)
NoCmd ==
    [op |-> None, pc |-> "idle", args |-> NoCall.args, force |-> TRUE,
     cname |-> <<None, None>>, client |-> 0, created |-> FALSE,
     row |-> NoOpinion, dirty |-> {}]

(* The commands in flight that are to insert an opinion, or to update one. *)
Creating ==
    Cardinality({t \in Desks : cmd[t].op \in {"cli_create_opinion", "create_opinion"}})
Editing == Cardinality({t \in Desks : cmd[t].op = "opinion_edit"})
InFlight == Creating + Editing

(* model.get(client_name=.., client_version=..): the id of the first row   *)
(* that matches, 0 for DoesNotExist.                                       *)
get_client(table, cname) ==
    IF \E i \in 1..Len(table) : table[i] = cname
    THEN CHOOSE i \in 1..Len(table) :
            /\ table[i] = cname
            /\ \A k \in 1..(i - 1) : table[k] # cname
    ELSE 0

(* How the conversions of client.create_opinion end.  The parameter types  *)
(* of click convert TYPE, DECISION and --revision before the body runs;    *)
(* the body then looks the user up (lines 291-300).                        *)
cli_create_opinion_result(ops, user, decision, type_, lsd, revision) ==
    IF type_ \notin OpinionTypes \/ revision \notin Revisions
       \/ click_choice(decision) = "BadParameter" THEN "BadParameter"
    ELSE IF user \notin Users THEN "BadParameter"
    ELSE "ok"

(* client.create_opinion (cdf opinion create), lines 291-300: the command  *)
(* is entered, its parameters are converted and the user is looked up.     *)
(* The tables these statements read are never written to.  The statements  *)
(* that follow are GetClient, InsertClient, ReadClock and OpinionSave.     *)
cli_create_opinion(t, user, decision, type_, lsd, revision, force) ==
    /\ cmd[t].pc = "idle"
    /\ Len(opinions) + Creating < MaxOpinions
    /\ cmd' = [cmd EXCEPT ![t] =
                 IF cli_create_opinion_result(opinions, user, decision, type_,
                                              lsd, revision) = "ok"
                 THEN [NoCmd EXCEPT
                         !.op = "cli_create_opinion", !.pc = "get_client",
                         !.args = CallArgs(0, user, PyStr(decision), type_, lsd,
                                           revision),
                         !.force = force, !.cname = ClientCLI,
                         !.row = OpinionRow(0, user, 0, click_choice(decision),
                                            type_, lsd, revision)]
                 ELSE NoCmd]
    /\ UNCHANGED <<clock, opinions, flags, votes, voteopinions, clients, run,
                   nticks, nedits, nruns>>

(* A create_opinion that does not look at the decision.                    *)
create_opinion_result_novalidation(ops, username, decision, opiniontype, lsd, revision) ==
    IF opiniontype \notin OpinionTypes THEN "DoesNotExist"
    ELSE IF revision \notin Revisions THEN "DoesNotExist"
    ELSE IF capitalize(username) \notin Users THEN "DoesNotExist"
    ELSE "ok"

(* How the checks of DataFlagOpinion.create_opinion end (orm.py, lines     *)
(* 345-360): the decision is validated, then type, revision and user are   *)
(* looked up.                                                              *)
create_opinion_result(ops, username, decision, opiniontype, lsd, revision) ==
    IF decision.py # "str" \/ decision.v \notin Decisions THEN "ValidationError"
    ELSE IF opiniontype \notin OpinionTypes THEN "DoesNotExist"
    ELSE IF revision \notin Revisions THEN "DoesNotExist"
    ELSE IF capitalize(username) \notin Users THEN "DoesNotExist"
    ELSE "ok"

(* DataFlagOpinion.create_opinion, lines 345-360: the call and its checks. *)
(* creation_time is the caller's time.time(): the current second and some  *)
(* tenths.  The statements that follow are GetClient, InsertClient and     *)
(* OpinionSave.                                                            *)
create_opinion(t, username, creation_time, decision, opiniontype, client_name, client_version, lsd, revision) ==
    /\ cmd[t].pc = "idle"
    /\ Len(opinions) + Creating < MaxOpinions
    /\ cmd' = [cmd EXCEPT ![t] =
                 IF create_opinion_result(opinions, username, decision,
                                          opiniontype, lsd, revision) = "ok"
                 THEN [NoCmd EXCEPT
                         !.op = "create_opinion", !.pc = "get_client",
                         !.args = CallArgs(0, username, decision, opiniontype,
                                           lsd, revision),
                         !.cname = <<client_name, client_version>>,
                         !.row = [OpinionRow(0, capitalize(username),
                                             creation_time.s, decision.v,
                                             opiniontype, lsd, revision)
                                    EXCEPT !.creation_frac = creation_time.f,
                                           !.last_edit_frac = creation_time.f]]
                 ELSE NoCmd]
    /\ UNCHANGED <<clock, opinions, flags, votes, voteopinions, clients, run,
                   nticks, nedits, nruns>>

(* client.opinion_edit, lines 424-447: the assignments to the opinion      *)
(* object the command has read.  An option that is not given, or is falsy  *)
(* (lsd 0), leaves its field alone.                                        *)
EditedRow(o, decision, type_, lsd, user) ==
    [o EXCEPT !.user = IF user # None THEN user ELSE @,
              !.decision = IF decision # None THEN click_choice(decision) ELSE @,
              !.type = IF type_ # None THEN type_ ELSE @,
              !.lsd = IF lsd # 0 THEN lsd ELSE @]

(* The fields client.opinion_edit assigns to (lines 424-449): the ones of  *)
(* the options given, and last_edit.                                       *)
EditedFields(decision, type_, lsd, user) ==
    {"last_edit", "last_edit_frac"}
    \cup (IF user # None THEN {"user"} ELSE {})
    \cup (IF decision # None THEN {"decision"} ELSE {})
    \cup (IF type_ # None THEN {"type"} ELSE {})
    \cup (IF lsd # 0 THEN {"lsd"} ELSE {})

(* An edit that takes the user name as it is given.                        *)
opinion_edit_result_anyuser(ops, id, decision, type_, lsd, user) ==
    IF id \notin 1..Len(ops) THEN "BadParameter"
    ELSE IF decision # None /\ click_choice(decision) = "BadParameter"
         THEN "BadParameter"
    ELSE IF type_ # None /\ type_ \notin OpinionTypes THEN "BadParameter"
    ELSE "ok"

(* How the conversions of client.opinion_edit end.  click converts ID      *)
(* (Opinion.convert, lines 79-89, reads the row), --decision and --type    *)
(* before the body runs; the body looks a given user up (lines 424-435).   *)
opinion_edit_result(ops, id, decision, type_, lsd, user) ==
    IF id \notin 1..Len(ops) THEN "BadParameter"
    ELSE IF decision # None /\ click_choice(decision) = "BadParameter"
         THEN "BadParameter"
    ELSE IF type_ # None /\ type_ \notin OpinionTypes THEN "BadParameter"
    ELSE IF user # None /\ user \notin Users THEN "BadParameter"
    ELSE "ok"

(* client.opinion_edit (cdf opinion edit ID), lines 79-89 and 424-447: the *)
(* row is read and the options are assigned to the object in memory.  The  *)
(* statements that follow are ReadClock and OpinionSave.                   *)
opinion_edit(t, id, decision, type_, lsd, user, force) ==
    /\ cmd[t].pc = "idle"
    /\ nedits + Editing < MaxEdits
    /\ cmd' = [cmd EXCEPT ![t] =
                 IF opinion_edit_result(opinions, id, decision, type_, lsd, user) = "ok"
                 THEN [NoCmd EXCEPT
                         !.op = "opinion_edit", !.pc = "clock",
                         !.args = CallArgs(id, user, PyStr(decision), type_, lsd,
                                           None),
                         !.force = force,
                         !.row = EditedRow(opinions[id], decision, type_, lsd, user),
                         !.dirty = EditedFields(decision, type_, lsd, user)]
                 ELSE NoCmd]
    /\ UNCHANGED <<clock, opinions, flags, votes, voteopinions, clients, run,
                   nticks, nedits, nruns>>

(* The statement after the client row is there: the API call inserts the   *)
(* opinion, the command reads the clock first.                             *)
AfterClient(c) == IF c.op = "create_opinion" THEN "save" ELSE "clock"

(* DataFlagClient.get_or_create (client.py, line 303; orm.py, line 361),   *)
(* first statement: the SELECT.                                            *)
GetClient(t) ==
    /\ cmd[t].pc = "get_client"
    /\ LET found == get_client(clients, cmd[t].cname)
       IN cmd' = [cmd EXCEPT ![t].client = found,
                             ![t].pc = IF found # 0 THEN AfterClient(cmd[t])
                                       ELSE "ins_client"]
    /\ UNCHANGED <<clock, opinions, flags, votes, voteopinions, clients, run,
                   nticks, nedits, nruns>>

(* DataFlagClient.get_or_create, second statement: the INSERT that follows *)
(* a SELECT without a row.                                                 *)
InsertClient(t) ==
    /\ cmd[t].pc = "ins_client"
    /\ clients' = Append(clients, cmd[t].cname)
    /\ cmd' = [cmd EXCEPT ![t].client = Len(clients) + 1,
                          ![t].created = TRUE,
                          ![t].pc = AfterClient(cmd[t])]
    /\ UNCHANGED <<clock, opinions, flags, votes, voteopinions, run,
                   nticks, nedits, nruns>>

(* arrow.utcnow().int_timestamp: client.py, line 314 (creation_time and    *)
(* last_edit of the new opinion) and line 449 (last_edit of the edited     *)
(* one).                                                                   *)
ReadClock(t) ==
    /\ cmd[t].pc = "clock"
    /\ cmd' = [cmd EXCEPT
                 ![t].pc = "save",
                 ![t].row = IF cmd[t].op = "opinion_edit"
                            THEN [@ EXCEPT !.last_edit = clock,
                                           !.last_edit_frac = 0]
                            ELSE [@ EXCEPT !.creation_time = clock,
                                           !.last_edit = clock]]
    /\ UNCHANGED <<clock, opinions, flags, votes, voteopinions, clients, run,
                   nticks, nedits, nruns>>

(* The row Model.save() writes.  A new opinion gets the next id.  For an   *)
(* opinion that was read, the UPDATE sets every column from the object in  *)
(* memory, or the assigned fields only when the base model of chimedb.core *)
(* has only_save_dirty set.                                                *)
SavedRow(c, ops, only_save_dirty) ==
    IF c.op = "opinion_edit"
    THEN IF only_save_dirty
         THEN [f \in DOMAIN c.row |->
                 IF f \in c.dirty THEN c.row[f] ELSE ops[c.row.id][f]]
         ELSE c.row
    ELSE [c.row EXCEPT !.id = Len(ops) + 1]

(* How the save ends: the unique index rejects a row whose key another row *)
(* holds.                                                                  *)
OpinionSaveResult(c, ops, only_save_dirty) ==
    IF KeyTaken(ops, UniqueKey(SavedRow(c, ops, only_save_dirty)), c.row.id)
    THEN "IntegrityError" ELSE "ok"

(* opinion.save() (client.py, lines 321, 326, 452, 457) and cls.create     *)
(* (orm.py, lines 364-374): with --force, or after the answer y to the     *)
(* prompt.                                                                 *)
OpinionSave(t, only_save_dirty) ==
    /\ cmd[t].pc = "save"
    /\ LET res == OpinionSaveResult(cmd[t], opinions, only_save_dirty)
           row == SavedRow(cmd[t], opinions, only_save_dirty)
       IN IF res # "ok" THEN UNCHANGED <<opinions, nedits>>
          ELSE IF cmd[t].op = "opinion_edit"
               THEN /\ opinions' = [opinions EXCEPT ![row.id] = row]
                    /\ nedits' = nedits + 1
               ELSE /\ opinions' = Append(opinions, row)
                    /\ nedits' = nedits
    /\ cmd' = [cmd EXCEPT ![t] = NoCmd]
    /\ UNCHANGED <<clock, flags, votes, voteopinions, clients, run, nticks, nruns>>

(* click.confirm (client.py, lines 325, 456 and 775) answered with n: the  *)
(* command ends without the save.                                          *)
PromptAbort(t) ==
    /\ cmd[t].pc = "save"
    /\ ~cmd[t].force
    /\ cmd' = [cmd EXCEPT ![t] = NoCmd]
    /\ UNCHANGED <<clock, opinions, flags, votes, voteopinions, clients, run,
                   nticks, nedits, nruns>>

(* Command lines of `cdf opinion edit`: at most one option is given.       *)
NoEdit == [decision |-> None, type |-> None, lsd |-> 0, user |-> None]
EditInputs ==
    {NoEdit}
    \cup {[NoEdit EXCEPT !.decision = d] : d \in Decisions}
    \cup {[NoEdit EXCEPT !.lsd = l] : l \in LSDs}

(* Command lines of `cdf opinion edit` with the other options as well, and *)
(* with values that are not in the store.                                  *)
AdminEditInputs ==
    EditInputs
    \cup {[NoEdit EXCEPT !.decision = d] : d \in {"GOOD", "idontknow"}}
    \cup {[NoEdit EXCEPT !.type = t] : t \in OpinionTypes \cup {"tX"}}
    \cup {[NoEdit EXCEPT !.user = u] : u \in Users \cup {"mallory"}}

(* Arguments of DataFlagOpinion.create_opinion: every key of one revision, *)
(* every decision, and calls with one argument that is not acceptable.     *)
ApiBase == [user |-> "Alice", decision |-> PyStr("bad"), type |-> "t1",
            lsd |-> 2111, revision |-> "rA"]
ApiInputs ==
    [user : Users, decision : {PyStr("bad")}, type : OpinionTypes,
     lsd : LSDs, revision : {"rA"}]
    \cup {[ApiBase EXCEPT !.decision = PyStr(d)] : d \in Decisions}
    \cup {[ApiBase EXCEPT !.decision = d] : d \in {PyStr("idontknow"), PyTrue}}
    \cup {[ApiBase EXCEPT !.user = u] : u \in {"alice", "mallory"}}
    \cup {[ApiBase EXCEPT !.type = "tX"], [ApiBase EXCEPT !.revision = "rX"]}

(* The client of the API caller, and the tenths of a second of its clock.  *)
ClientAPI == <<"test", "0.0.0">>
Fracs == {0, 5}

(* Command lines of `cdf opinion create`.                                  *)
CliBase == [user |-> "Alice", decision |-> "bad", type |-> "t1",
            lsd |-> 2111, revision |-> "rA"]
CliInputs ==
    [user : Users, decision : {"bad"}, type : OpinionTypes, lsd : LSDs,
     revision : {"rA"}]
    \cup {[CliBase EXCEPT !.decision = d] : d \in Decisions}
    \cup {[CliBase EXCEPT !.decision = d] : d \in {"GOOD", "idontknow"}}
    \cup {[CliBase EXCEPT !.user = "mallory"], [CliBase EXCEPT !.type = "tX"],
          [CliBase EXCEPT !.revision = "rX"]}

----------------------------------------------------------------------------
(* Flags entered by hand.                                                  *)

(* Time arguments of the command line, and what arrow.get makes of them    *)
(* (int_timestamp of the parsed time; a string arrow cannot parse fails).  *)
TimeStrings == {"2020-01-01T00:00:00Z", "2020-01-02T00:00:00Z"}
arrow_get(value) ==
    CASE value = "2020-01-01T00:00:00Z" -> 1577836800
      [] value = "2020-01-02T00:00:00Z" -> 1577923200
      [] OTHER -> NULL

(* click type Time(allow_null).convert: a null word stands for a missing   *)
(* time when nulls are allowed and is refused otherwise.                   *)
null_values == {"null", "Null", "none", "None"}
TimeAccepted(value, allow_null) ==
    IF value \in null_values THEN allow_null ELSE value \in TimeStrings

(* A table_metadata in which the named arguments are written last.         *)
table_metadata_named_last(freq, instrument, inputs, metadata) ==
    LET arg == [freq |-> freq, instrument |-> instrument, inputs |-> inputs]
        named == {k \in {"freq", "instrument", "inputs"} : arg[k].py # "NoneType"}
        extra == IF metadata.py = "dict" THEN DOMAIN metadata.v ELSE {}
    IN [k \in named \cup extra |-> IF k \in named THEN arg[k] ELSE metadata.v[k]]

(* DataFlag.create_flag, lines 141-159: table_metadata.  The three named   *)
(* arguments are stored when they are not None, then the entries of the    *)
(* metadata argument are written over them (dict.update).                  *)
table_metadata(freq, instrument, inputs, metadata) ==
    LET arg == [freq |-> freq, instrument |-> instrument, inputs |-> inputs]
        named == {k \in {"freq", "instrument", "inputs"} : arg[k].py # "NoneType"}
        extra == IF metadata.py = "dict" THEN DOMAIN metadata.v ELSE {}
    IN [k \in named \cup extra |-> IF k \in extra THEN metadata.v[k] ELSE arg[k]]

(* How DataFlag.create_flag ends: the type checks of lines 143-158 in      *)
(* their order, then DataFlagType.get (line 162).                          *)
create_flag_result(flagtype, freq, instrument, inputs, metadata) ==
    IF freq.py \notin {"NoneType", "list"} THEN "ValueError"
    ELSE IF inputs.py \notin {"NoneType", "list"} THEN "ValueError"
    ELSE IF metadata.py \notin {"NoneType", "dict"} THEN "ValueError"
    ELSE IF flagtype \notin FlagTypes THEN "DoesNotExist"
    ELSE "ok"

(* DataFlag.create_flag: the row it inserts (lines 164-169).               *)
create_flag(flagtype, start_time, finish_time, freq, instrument, inputs, metadata) ==
    [type |-> flagtype, start_time |-> start_time, finish_time |-> finish_time,
     metadata |-> table_metadata(freq, instrument, inputs, metadata)]

(* The arguments of a create_flag call as the caller wrote them, and of a  *)
(* flag edit.                                                              *)
FlagArgs(flagtype, start_time, finish_time, freq, instrument, inputs, metadata) ==
    [type |-> flagtype, start_time |-> start_time, finish_time |-> finish_time,
     freq |-> freq, instrument |-> instrument, inputs |-> inputs,
     metadata |-> metadata]
FlagEditArgs(flag, start, finish) == [id |-> flag, start |-> start, finish |-> finish]

(* A call of DataFlag.create_flag.  An instrument the caller leaves out is *)
(* 'chime', the default of the signature (line 114).                       *)
api_create_flag(flagtype, start_time, finish_time, freq, instrument, inputs, metadata) ==
    /\ Len(flags) < MaxFlags
    /\ LET instr == IF instrument.py = "unset" THEN PyStr("chime") ELSE instrument
           res == create_flag_result(flagtype, freq, instr, inputs, metadata)
       IN /\ flags' = IF res = "ok"
                      THEN Append(flags, create_flag(flagtype, start_time, finish_time,
                                                     freq, instr, inputs, metadata))
                      ELSE flags
          /\ last' = Call("create_flag",
                          FlagArgs(flagtype, start_time, finish_time, freq,
                                   instrument, inputs, metadata), res)
    /\ UNCHANGED <<clock, opinions, votes, voteopinions, clients, run,
                   nticks, nedits, nruns, cmd>>

(* Calls of DataFlag.create_flag: every type and time range with the other *)
(* arguments left out, and calls that give one more argument, acceptable   *)
(* or not.                                                                 *)
ApiFlagBase ==
    FlagArgs("vote", arrow_get("2020-01-01T00:00:00Z"), arrow_get("2020-01-02T00:00:00Z"),
             PyNone, Unset, PyNone, PyNone)
ApiFlagInputs ==
    {FlagArgs(t, arrow_get(a), arrow_get(b), PyNone, Unset, PyNone, PyNone) :
        t \in FlagTypes \cup {"fX"}, a \in TimeStrings, b \in TimeStrings}
    \cup {[ApiFlagBase EXCEPT !.freq = f] :
            f \in {PyList(<<3, 5>>), PyList(<<>>), PyStr("3")}}
    \cup {[ApiFlagBase EXCEPT !.instrument = i] : i \in {PyNone, PyStr("pathfinder")}}
    \cup {[ApiFlagBase EXCEPT !.inputs = PyList(<<0>>)]}
    \cup {[ApiFlagBase EXCEPT !.metadata = m] :
            m \in {PyDict([description |-> PyStr("rfi")]),
                   PyDict([freq |-> PyList(<<7>>)]), PyStr("rfi")}}
    \cup {[ApiFlagBase EXCEPT !.freq = PyList(<<3, 5>>),
                              !.metadata = PyDict([freq |-> PyList(<<7>>)])]}

(* client.create_flag (cdf flag create TYPE START FINISH --force),         *)
(* lines 631-676: FINISH may be the word null.                             *)
cli_create_flag(type_, start, finish) ==
    /\ Len(flags) < MaxFlags
    /\ LET accepted == /\ type_ \in FlagTypes
                       /\ TimeAccepted(start, FALSE)
                       /\ TimeAccepted(finish, TRUE)
       IN /\ flags' = IF accepted
                      THEN Append(flags,
                             [type |-> type_, start_time |-> arrow_get(start),
                              finish_time |-> IF finish \notin null_values
                                              THEN arrow_get(finish) ELSE NULL,
                              metadata |-> [k \in {"user"} |-> PyStr("operator")]])
                      ELSE flags
          /\ last' = Call("cli_create_flag", NoCall.args,
                          IF accepted THEN "ok" ELSE "BadParameter")
    /\ UNCHANGED <<clock, opinions, votes, voteopinions, clients, run,
                   nticks, nedits, nruns, cmd>>

(* Whether Python takes a value for true in `if x:`.                       *)
truthy(x) ==
    CASE x.py = "NoneType" -> FALSE
      [] x.py = "str" -> x.v # ""
      [] x.py = "list" -> Len(x.v) > 0
      [] x.py = "dict" -> DOMAIN x.v # {}
      [] OTHER -> TRUE

(* dict.update: the entries of e are written over those of d.              *)
dict_update(d, e) ==
    [k \in DOMAIN d \cup DOMAIN e |-> IF k \in DOMAIN e THEN e[k] ELSE d[k]]

(* The instruments --instrument accepts (click.Choice, line 703).          *)
Instruments == {"chime", "pathfinder"}

(* The options of `cdf flag edit` (lines 680-728); None and PyNone stand   *)
(* for an option that is not given.                                        *)
NoFlagEdit ==
    [type |-> None, start |-> None, finish |-> None, instrument |-> PyNone,
     description |-> PyNone, user |-> PyNone, freq |-> PyNone,
     inputs |-> PyNone, metadata |-> PyNone]

(* The arguments of a flag edit as the command line gave them.             *)
FlagEditCall(flag, o) == [id |-> flag] @@ o

(* The metadata keys client.edit_flag assigns to one by one (lines         *)
(* 759-768): the options given with a value Python takes for true.         *)
FlagEditKeys(o) ==
    {k \in {"description", "user", "instrument", "inputs", "freq"} : truthy(o[k])}

(* client.edit_flag, lines 746-768: the assignments to the flag object the *)
(* command has read.  --metadata is written over the stored metadata, then *)
(* the named options over that.                                            *)
EditedFlag(f, o) ==
    LET md == IF truthy(o.metadata) THEN dict_update(f.metadata, o.metadata.v)
              ELSE f.metadata
    IN [f EXCEPT
          !.type = IF o.type # None THEN o.type ELSE @,
          !.start_time = IF o.start # None THEN arrow_get(o.start) ELSE @,
          !.finish_time = IF o.finish # None
                          THEN (IF o.finish # "null" THEN arrow_get(o.finish)
                                ELSE NULL)
                          ELSE @,
          !.metadata = [k \in DOMAIN md \cup FlagEditKeys(o) |->
                          IF k \in FlagEditKeys(o) THEN o[k] ELSE md[k]]]

(* The fields client.edit_flag assigns to (lines 746-753).  The metadata   *)
(* dict is changed in place, which is no assignment to the field.          *)
EditedFlagFields(o) ==
    (IF o.type # None THEN {"type"} ELSE {})
    \cup (IF o.start # None THEN {"start_time"} ELSE {})
    \cup (IF o.finish # None THEN {"finish_time"} ELSE {})

(* How the conversions of `cdf flag edit ID [options]` end.  click's       *)
(* parser hands over the options in the order of the command line and the  *)
(* positional ID after them, so the options given are converted first: a   *)
(* refused option ends the command before Flag.convert reads the row.      *)
(* --start and --finish are of type TIME, which refuses null; FType,       *)
(* Choice, ListOfType and JsonDictType fail as click types do.             *)
(* Flag.convert (lines 64-69) formats its message for an unknown id with   *)
(* %i, and the value is the string of the command line: TypeError, which   *)
(* nothing catches.                                                        *)
edit_flag_result(fls, flag, o) ==
    IF o.type # None /\ o.type \notin FlagTypes THEN "BadParameter"
    ELSE IF o.start # None /\ ~TimeAccepted(o.start, FALSE) THEN "BadParameter"
    ELSE IF o.finish # None /\ ~TimeAccepted(o.finish, FALSE) THEN "BadParameter"
    ELSE IF o.instrument.py # "NoneType" /\ o.instrument.v \notin Instruments
         THEN "BadParameter"
    ELSE IF o.freq.py \notin {"NoneType", "list"} THEN "BadParameter"
    ELSE IF o.inputs.py \notin {"NoneType", "list"} THEN "BadParameter"
    ELSE IF o.metadata.py \notin {"NoneType", "dict"} THEN "BadParameter"
    ELSE IF flag \notin 1..Len(fls) THEN "TypeError"
    ELSE "ok"

(* The commands in flight that are to update a flag.                       *)
FlagEditing == Cardinality({t \in Desks : cmd[t].op = "edit_flag"})

(* client.edit_flag (cdf flag edit ID), lines 64-69 and 746-768: the row   *)
(* is read and the options are assigned to the object in memory.  The      *)
(* statement that follows is FlagSave.  A command that fails in its        *)
(* conversions is logged and has written nothing.                          *)
edit_flag(t, flag, o, force) ==
    /\ cmd[t].pc = "idle"
    /\ LET res == edit_flag_result(flags, flag, o)
       IN IF res = "ok"
          THEN /\ cmd' = [cmd EXCEPT ![t] =
                            [NoCmd EXCEPT
                               !.op = "edit_flag", !.pc = "save",
                               !.args = FlagEditCall(flag, o),
                               !.force = force,
                               !.row = [id |-> flag] @@ EditedFlag(flags[flag], o),
                               !.dirty = EditedFlagFields(o)]]
               /\ last' = last
          ELSE /\ cmd' = cmd
               /\ last' = Call("edit_flag", FlagEditCall(flag, o), res)
    /\ UNCHANGED <<clock, opinions, flags, votes, voteopinions, clients, run,
                   nticks, nedits, nruns>>

(* The row flag.save() writes: every column from the object in memory, or  *)
(* the assigned fields only when the base model of chimedb.core has        *)
(* only_save_dirty set.                                                    *)
SavedFlag(c, fls, only_save_dirty) ==
    [f \in DOMAIN fls[c.row.id] |->
        IF only_save_dirty /\ f \notin c.dirty THEN fls[c.row.id][f]
        ELSE c.row[f]]

(* flag.save() (client.py, lines 771 and 775-776): with --force, or after  *)
(* the answer y to the prompt.                                             *)
FlagSave(t, only_save_dirty) ==
    /\ cmd[t].pc = "save"
    /\ cmd[t].op = "edit_flag"
    /\ flags' = [flags EXCEPT
                   ![cmd[t].row.id] = SavedFlag(cmd[t], flags, only_save_dirty)]
    /\ last' = Call("edit_flag", cmd[t].args, "ok")
    /\ cmd' = [cmd EXCEPT ![t] = NoCmd]
    /\ UNCHANGED <<clock, opinions, votes, voteopinions, clients, run,
                   nticks, nedits, nruns>>


----------------------------------------------------------------------------
(* The masks of a flag.                                                    *)

(* Number of inputs of each instrument (orm.py, line 215).                 *)
inp_dict == [chime |-> 2048, pathfinder |-> 256]

(* The properties instrument, freq and inputs of DataFlag:                 *)
(* self.metadata.get(key, None).                                           *)
metadata_get(flag, key) ==
    IF key \in DOMAIN flag.metadata THEN flag.metadata[key] ELSE PyNone

(* numpy: np.ones(n, dtype=bool), mask[idx] = value for a list of integers *)
(* (a negative index counts from the end, an index outside the array is an *)
(* IndexError), and ~mask.                                                 *)
np_ones(n) == [i \in 0..(n - 1) |-> TRUE]
np_index_ok(n, idx) == \A k \in 1..Len(idx) : idx[k] >= 0 - n /\ idx[k] < n
np_setitem(mask, n, idx, value) ==
    [i \in DOMAIN mask |->
        IF \E k \in 1..Len(idx) : (IF idx[k] < 0 THEN idx[k] + n ELSE idx[k]) = i
        THEN value ELSE mask[i]]

(* An inversion that returns its argument.                                 *)
np_invert_noop(mask) == mask

np_invert(mask) == [i \in DOMAIN mask |-> ~mask[i]]

(* mask[idx] = False, then ~mask, as both properties do it.                *)
masked(n, idx) ==
    IF np_index_ok(n, idx)
    THEN [result |-> "ok", mask |-> np_invert(np_setitem(np_ones(n), n, idx, FALSE))]
    ELSE [result |-> "IndexError", mask |-> <<>>]

(* DataFlag.freq_mask (orm.py, lines 188-199).                             *)
freq_mask(flag) ==
    IF metadata_get(flag, "freq").py # "NoneType"
    THEN masked(n_freq, metadata_get(flag, "freq").v)
    ELSE [result |-> "ok", mask |-> np_ones(n_freq)]

(* DataFlag.input_mask (orm.py, lines 209-222): None without instrument.   *)
input_mask(flag) ==
    IF metadata_get(flag, "instrument").py = "NoneType"
    THEN [result |-> "None", mask |-> <<>>]
    ELSE IF metadata_get(flag, "inputs").py # "NoneType"
         THEN masked(inp_dict[metadata_get(flag, "instrument").v],
                     metadata_get(flag, "inputs").v)
         ELSE [result |-> "ok",
               mask |-> np_ones(inp_dict[metadata_get(flag, "instrument").v])]

(* Reading flag.freq_mask and flag.input_mask of a stored flag.            *)
read_freq_mask(flag) ==
    /\ flag \in 1..Len(flags)
    /\ last' = Call("freq_mask", FlagEditArgs(flag, None, None), freq_mask(flags[flag]))
    /\ UNCHANGED <<clock, opinions, flags, votes, voteopinions, clients, run,
                   nticks, nedits, nruns, cmd>>

read_input_mask(flag) ==
    /\ flag \in 1..Len(flags)
    /\ last' = Call("input_mask", FlagEditArgs(flag, None, None), input_mask(flags[flag]))
    /\ UNCHANGED <<clock, opinions, flags, votes, voteopinions, clients, run,
                   nticks, nedits, nruns, cmd>>

(* The lists of at most n elements of S.                                   *)
ListsOver(S, n) == UNION {[1..k -> S] : k \in 0..n}

(* Frequency and input ids, the first and the last of each mask among      *)
(* them; input 256 exists on chime only.                                   *)
FreqIds == {0, 3, 5, n_freq - 1}
InputIds == {0, inp_dict.pathfinder}

(* The flags whose masks are read: created by DataFlag.create_flag with    *)
(* every combination of freq, instrument and inputs.                       *)
MaskFlags ==
    {create_flag("vote", arrow_get("2020-01-01T00:00:00Z"),
                 arrow_get("2020-01-02T00:00:00Z"), f, i, n, PyNone) :
        f \in {PyNone} \cup {PyList(l) : l \in ListsOver(FreqIds, MaxLen)},
        i \in {PyNone, PyStr("chime"), PyStr("pathfinder")},
        n \in {PyNone} \cup {PyList(l) : l \in ListsOver(InputIds, MaxLen)}}

Tick(d) ==
    /\ nticks < MaxTicks
    /\ clock' = clock + d
    /\ nticks' = nticks + 1
    /\ UNCHANGED <<opinions, flags, votes, voteopinions, clients, run, nedits, nruns, last, cmd>>

----------------------------------------------------------------------------
(* Voting engine.                                                          *)

AttributeError == "AttributeError"

(* An attribute lookup that answers None for a missing attribute.         *)
OpinionAttr_none(o, a) == IF a \in DOMAIN o THEN o[a] ELSE None

(* Attribute lookup on a DataFlagOpinion instance: the model class has the *)
(* fields of the table and nothing else.                                   *)
OpinionAttr(o, a) == IF a \in DOMAIN o THEN o[a] ELSE AttributeError

(* ch_util.ephemeris.csd_to_unix: start of sidereal day d in Unix seconds. *)
csd_to_unix(d) == 1384489290 + d * 86164

(* The time column of the whole vote table, for MAX(DataFlagVote.time).    *)
RECURSIVE VoteTimes(_)
VoteTimes(vs) == IF vs = <<>> THEN <<>> ELSE <<Head(vs).time>> \o VoteTimes(Tail(vs))

(* A low-water mark without the grace window.                              *)
last_vote_time_nograce(vs) ==
    LET m == SeqMax(VoteTimes(vs))
    IN IF m # NULL /\ m # 0 THEN m ELSE 0

(* hypnotoad_vote, lines 50-57: the low-water mark.                        *)
last_vote_time(vs) ==
    LET m == SeqMax(VoteTimes(vs))
    IN IF m # NULL /\ m # 0 THEN m - max_vote_time ELSE 0

(* hypnotoad_vote, lines 59-63: the candidate query, rows in id order.     *)
RECURSIVE new_opinions(_, _, _)
new_opinions(ops, mark, revision) ==
    IF ops = <<>> THEN <<>>
    ELSE LET o == Head(ops)
             rest == new_opinions(Tail(ops), mark, revision)
         IN IF o.last_edit >= mark /\ o.revision = revision
            THEN <<o>> \o rest ELSE rest

(* The conflict query as a conjunction of both conditions.                 *)
more_opinions_conj(opinion, ops) ==
    Cardinality({i \in 1..Len(ops) : /\ ops[i].decision # opinion.decision
                                     /\ ops[i].lsd = opinion.lsd})

(* hypnotoad_vote, lines 68-75.  The argument of where() is the Python     *)
(* expression `A and B` of two peewee expressions: A is an object without  *)
(* __bool__, hence truthy, and the value of `A and B` is B.  The query is  *)
(* SELECT COUNT .. WHERE lsd = opinion.lsd: every revision and decision,*)
(* the candidate's own row included.                                       *)
more_opinions(opinion, ops) ==
    Cardinality({i \in 1..Len(ops) : ops[i].lsd = opinion.lsd})

(* A loop body that translates every candidate, and finds the metadata    *)
(* attributes on the opinion.                                              *)
hypnotoad_step_noveto(opinion, ops) ==
    IF opinion.decision = "bad" THEN "flag" ELSE "noflag"

(* What the loop body (lines 66-97) does with one candidate:               *)
(*   "skip"   more_opinions is non-zero: nothing is written;               *)
(*   "raise"  _translate_single_opinion reads opinion.freq (line 94) of a  *)
(*            'bad' opinion: AttributeError, before any write;             *)
(*   "flag"   a 'bad' opinion whose attributes exist: create_flag;         *)
(*   "noflag" any other decision: flag stays None.                         *)
hypnotoad_step(opinion, ops) ==
    IF more_opinions(opinion, ops) # 0 THEN "skip"
    ELSE IF opinion.decision = "bad"
         THEN IF AttributeError \in {OpinionAttr(opinion, "freq"),
                                     OpinionAttr(opinion, "instrument"),
                                     OpinionAttr(opinion, "inputs")}
              THEN "raise" ELSE "flag"
         ELSE "noflag"

(* The record of the candidates a judge passed over, kept only while it is *)
(* switched on; it is no field of the program, and nothing reads it but    *)
(* the properties about passed-over candidates.                            *)
NoSkipLog == [on |-> FALSE, rows |-> {}]

(* What is remembered of the first interrupted run of a judge: its         *)
(* parameters and the number of opinion writes the ledger had seen.  Like  *)
(* left, done and cut it is no field of the program; the properties about  *)
(* reruns read it.                                                         *)
NoHalt == [mode |-> None, revision |-> None, mut |-> 0]

IdleRun ==
    [pc |-> "idle", mode |-> None, revision |-> None,
     timestamp |-> [py |-> "int", v |-> 0],
     last_vote_time |-> 0, new_opinions |-> <<>>, opinion |-> NoOpinion,
     flag |-> 0, vote |-> 0, flags |-> <<>>, outcome |-> "none",
     scanned |-> <<>>, newFlags |-> {}, newVotes |-> {},
     premut |-> 0, retmut |-> 0,
     prev |-> [revision |-> None, mut |-> 0],
     failed |-> None, left |-> {}, done |-> {}, cut |-> 0,
     halted |-> NoHalt,
     skipped |-> NoSkipLog, client |-> 0, arrow |-> "0.15"]

(* The releases of arrow the process of a judge may have installed:        *)
(* setup.py asks for arrow without a version; client.py needs              *)
(* int_timestamp, which is there from 0.15 on.                             *)
ArrowVersions == {"0.15", "1.0"}

(* arrow.utcnow().timestamp (line 130): the Unix time before arrow 1.0,    *)
(* where timestamp is a property; from 1.0 on it is a method, and the      *)
(* expression is the bound method of the Arrow object of that time.        *)
arrow_timestamp(now, version) ==
    IF version = "0.15" THEN [py |-> "int", v |-> now]
    ELSE [py |-> "method", v |-> now]

(* A judge before its first run, with either release installed.            *)
NewJudges == {[IdleRun EXCEPT !.arrow = a] : a \in ArrowVersions}

(* A constructor that accepts every mode name.                             *)
VotingJudge_init_unchecked(mode, revision) ==
    IF revision \notin Revisions THEN "DoesNotExist" ELSE "ok"

(* VotingJudge.__init__ (lines 117-143): the checks, in their order.  The  *)
(* two mode checks come before the only store query of the constructor,    *)
(* DataRevision.get.                                                       *)
VotingJudge_init(mode, revision) ==
    IF Len(mode) > max_len_mode_name THEN "RuntimeError"
    ELSE IF mode \notin mode_choices THEN "UserWarning"
    ELSE IF revision \notin Revisions THEN "DoesNotExist"
    ELSE "ok"

(* VotingJudge(mode, revision).vote(): __init__ (lines 117-143) and the    *)
(* timestamp taken by the vote lambda (line 130).  A constructor that      *)
(* raises leaves no judge: there is nothing to call vote() on.             *)
VoteInit(j, mode, revision) ==
    /\ run[j].pc = "idle"
    /\ nruns < MaxRuns
    /\ IF VotingJudge_init(mode, revision) = "ok"
       THEN run' = [run EXCEPT ![j] =
                 [IdleRun EXCEPT !.pc = "mark", !.mode = mode,
                                 !.revision = revision,
                                 !.timestamp =
                                     arrow_timestamp(clock, run[j].arrow),
                                 !.premut = MutCount,
                                 !.left = run[j].left, !.done = run[j].done,
                                 !.cut = run[j].cut,
                                 !.halted = run[j].halted,
                                 !.skipped = run[j].skipped,
                                 !.arrow = run[j].arrow,
                                 !.prev = IF run[j].outcome = "returned"
                                          THEN [revision |-> run[j].revision,
                                                mut |-> run[j].retmut]
                                          ELSE [revision |-> None, mut |-> 0]]]
       ELSE run' = [run EXCEPT ![j] =
                 [IdleRun EXCEPT !.outcome = VotingJudge_init(mode, revision),
                                 !.mode = mode, !.revision = revision,
                                 !.left = run[j].left, !.done = run[j].done,
                                 !.cut = run[j].cut,
                                 !.halted = run[j].halted,
                                 !.skipped = run[j].skipped,
                                 !.arrow = run[j].arrow]]
    /\ nruns' = nruns + 1
    /\ UNCHANGED <<clock, opinions, flags, votes, voteopinions, clients, nticks,
                   nedits, last, cmd>>

(* hypnotoad_vote, lines 50-57: read MAX(time) and derive the mark.        *)
HypnotoadMark(j) ==
    /\ run[j].pc = "mark"
    /\ run' = [run EXCEPT ![j].pc = "select",
                          ![j].last_vote_time = last_vote_time(votes)]
    /\ UNCHANGED <<clock, opinions, flags, votes, voteopinions, clients,
                   nticks, nedits, nruns, last, cmd>>

(* A candidate query that ignores the low-water mark.                      *)
HypnotoadSelect_all(j) ==
    /\ run[j].pc = "select"
    /\ LET rows == new_opinions(opinions, 0, run[j].revision)
       IN run' = [run EXCEPT ![j].pc = "loop", ![j].new_opinions = rows,
                             ![j].scanned = rows]
    /\ UNCHANGED <<clock, opinions, flags, votes, voteopinions, clients,
                   nticks, nedits, nruns, last, cmd>>

(* hypnotoad_vote, lines 59-66: the candidate query is executed when the   *)
(* loop starts; the loop then walks over the rows as they were read.       *)
HypnotoadSelect(j) ==
    /\ run[j].pc = "select"
    /\ LET rows == new_opinions(opinions, run[j].last_vote_time, run[j].revision)
       IN run' = [run EXCEPT ![j].pc = "loop", ![j].new_opinions = rows,
                             ![j].scanned = rows]
    /\ UNCHANGED <<clock, opinions, flags, votes, voteopinions, clients,
                   nticks, nedits, nruns, last, cmd>>

(* The orders in which a query without ORDER BY may hand out its rows.     *)
Orders(rows) ==
    {[i \in 1..Len(rows) |-> rows[p[i]]] : p \in Permutations(1..Len(rows))}

(* hypnotoad_vote, lines 59-66, on a database that hands out the rows of   *)
(* the candidate query in another order than that of their ids.            *)
HypnotoadSelectReordered(j) ==
    /\ run[j].pc = "select"
    /\ \E rows \in Orders(new_opinions(opinions, run[j].last_vote_time,
                                        run[j].revision)) :
          /\ rows # new_opinions(opinions, run[j].last_vote_time,
                                 run[j].revision)
          /\ run' = [run EXCEPT ![j].pc = "loop", ![j].new_opinions = rows,
                                ![j].scanned = rows]
    /\ UNCHANGED <<clock, opinions, flags, votes, voteopinions, clients,
                   nticks, nedits, nruns, last, cmd>>

(* hypnotoad_vote, lines 64-81, as one function of the candidate rows in   *)
(* the order given and of an opinion table nobody else writes to: the      *)
(* decision taken for each candidate that is reached, the opinions that    *)
(* get a vote and the start times of the flags created.  An exception      *)
(* ends the loop.                                                          *)
RECURSIVE hypnotoad_vote(_, _)
hypnotoad_vote(rows, ops) ==
    IF rows = <<>> THEN [decisions |-> {}, votes |-> {}, flags |-> {}]
    ELSE LET opinion == Head(rows)
             kind == hypnotoad_step(opinion, ops)
             rest == hypnotoad_vote(Tail(rows), ops)
         IN IF kind = "raise"
            THEN [decisions |-> {<<opinion.id, kind>>}, votes |-> {},
                  flags |-> {}]
            ELSE [decisions |-> rest.decisions \cup {<<opinion.id, kind>>},
                  votes |-> rest.votes
                              \cup (IF kind = "skip" THEN {} ELSE {opinion.id}),
                  flags |-> rest.flags
                              \cup (IF kind = "flag"
                                    THEN {csd_to_unix(opinion.lsd)} ELSE {})]

(* hypnotoad_vote, lines 66-79 and _translate_single_opinion, lines 84-97: *)
(* the conflict query for the next candidate and, when it counts nothing,  *)
(* the flag part of the translation.                                       *)
HypnotoadStep(j) ==
    /\ run[j].pc = "loop"
    /\ run[j].new_opinions # <<>>
    /\ LET opinion == Head(run[j].new_opinions)
           rest == Tail(run[j].new_opinions)
           kind == hypnotoad_step(opinion, opinions)
       IN CASE kind = "skip" ->
                 /\ run' = [run EXCEPT ![j].new_opinions = rest,
                                       ![j].skipped =
                                           IF @.on
                                           THEN [@ EXCEPT
                                                 !.rows = @ \cup {opinion}]
                                           ELSE @]
                 /\ flags' = flags
            [] kind = "raise" ->
                 /\ run' = [run EXCEPT ![j] =
                              [IdleRun EXCEPT !.outcome = "raised",
                                              !.opinion = opinion,
                                              !.mode = run[j].mode,
                                              !.revision = run[j].revision,
                                              !.left = run[j].left,
                                              !.done = run[j].done,
                                              !.cut = run[j].cut,
                                              !.halted = run[j].halted,
                                              !.skipped = run[j].skipped,
                                 !.arrow = run[j].arrow]]
                 /\ flags' = flags
            [] kind = "noflag" ->
                 /\ run' = [run EXCEPT ![j].pc = "tr_client",
                                       ![j].new_opinions = rest,
                                       ![j].opinion = opinion, ![j].flag = 0,
                                       ![j].vote = 0]
                 /\ flags' = flags
            [] kind = "flag" ->
                 /\ flags' = Append(flags,
                        create_flag("vote", csd_to_unix(opinion.lsd),
                                    csd_to_unix(opinion.lsd + 1),
                                    PyStr(OpinionAttr(opinion, "freq")),
                                    PyStr(OpinionAttr(opinion, "instrument")),
                                    PyStr(OpinionAttr(opinion, "inputs")), PyNone))
                 /\ run' = [run EXCEPT ![j].pc = "tr_client",
                                       ![j].new_opinions = rest,
                                       ![j].opinion = opinion,
                                       ![j].flag = Len(flags) + 1,
                                       ![j].vote = 0,
                                       ![j].newFlags = @ \cup {Len(flags) + 1}]
    /\ UNCHANGED <<clock, opinions, votes, voteopinions, clients,
                   nticks, nedits, nruns, last, cmd>>

(* _translate_single_opinion, lines 98-100: DataFlagClient.get_or_create,  *)
(* first statement: the SELECT.                                            *)
TranslateClient(j) ==
    /\ run[j].pc = "tr_client"
    /\ LET found == get_client(clients, ClientVote)
       IN run' = [run EXCEPT ![j].client = found,
                             ![j].pc = IF found # 0 THEN "tr_vote"
                                       ELSE "tr_client_ins"]
    /\ UNCHANGED <<clock, opinions, flags, votes, voteopinions, clients,
                   nticks, nedits, nruns, last, cmd>>

(* An INSERT that starts the client table afresh.                          *)
TranslateClientInsert_fresh(j) ==
    /\ run[j].pc = "tr_client_ins"
    /\ clients' = <<ClientVote>>
    /\ run' = [run EXCEPT ![j].client = 1, ![j].pc = "tr_vote"]
    /\ UNCHANGED <<clock, opinions, flags, votes, voteopinions,
                   nticks, nedits, nruns, last, cmd>>

(* DataFlagClient.get_or_create, second statement: the INSERT that follows *)
(* a SELECT without a row.                                                 *)
TranslateClientInsert(j) ==
    /\ run[j].pc = "tr_client_ins"
    /\ clients' = Append(clients, ClientVote)
    /\ run' = [run EXCEPT ![j].client = Len(clients) + 1, ![j].pc = "tr_vote"]
    /\ UNCHANGED <<clock, opinions, flags, votes, voteopinions,
                   nticks, nedits, nruns, last, cmd>>

(* The run ends with an exception raised by the statement it is at; what   *)
(* the translation in flight has written stays.                            *)
Raised(j) ==
    [IdleRun EXCEPT !.outcome = "raised", !.failed = run[j].pc,
                    !.mode = run[j].mode,
                    !.revision = run[j].revision,
                    !.opinion = run[j].opinion,
                    !.flag = run[j].flag, !.vote = run[j].vote,
                    !.newFlags = run[j].newFlags,
                    !.newVotes = run[j].newVotes,
                    !.left = run[j].left, !.done = run[j].done,
                    !.cut = run[j].cut, !.halted = run[j].halted,
                    !.skipped = run[j].skipped,
                    !.arrow = run[j].arrow]

(* _translate_single_opinion, lines 101-108: DataFlagVote.create.  The     *)
(* column time is a FloatField: a timestamp that is a bound method is      *)
(* refused with TypeError before anything is inserted.                      *)
TranslateVote(j) ==
    /\ run[j].pc = "tr_vote"
    /\ IF run[j].timestamp.py = "method"
       THEN /\ run' = [run EXCEPT ![j] = Raised(j)]
            /\ votes' = votes
       ELSE /\ votes' = Append(votes,
                           [time |-> run[j].timestamp.v, mode |-> run[j].mode,
                            client |-> run[j].client, flag |-> run[j].flag,
                            revision |-> run[j].revision,
                            lsd |-> run[j].opinion.lsd])
            /\ run' = [run EXCEPT ![j].pc = "tr_link",
                                  ![j].vote = Len(votes) + 1,
                                  ![j].newVotes = @ \cup {Len(votes) + 1}]
    /\ UNCHANGED <<clock, opinions, flags, voteopinions, clients,
                   nticks, nedits, nruns, last, cmd>>

(* _translate_single_opinion, lines 109-110, and hypnotoad_vote, line 80:  *)
(* DataFlagVoteOpinion.create, then the returned flag (None included) is   *)
(* appended to the result list.                                            *)
TranslateLink(j) ==
    /\ run[j].pc = "tr_link"
    /\ voteopinions' = voteopinions \cup {<<run[j].vote, run[j].opinion.id>>}
    /\ run' = [run EXCEPT ![j].pc = "loop",
                          ![j].flags = Append(@, run[j].flag)]
    /\ UNCHANGED <<clock, opinions, flags, votes, clients, nticks, nedits, nruns, last, cmd>>

(* The loop of judge j is over: `return flags` is its next statement.      *)
LoopDone(j) == run[j].pc = "loop" /\ run[j].new_opinions = <<>>

(* hypnotoad_vote, line 81: return flags.  The judge's locals are gone;    *)
(* the returned list stays with the caller.                                *)
VoteReturn(j) ==
    /\ LoopDone(j)
    /\ run' = [run EXCEPT ![j] =
                 [IdleRun EXCEPT !.outcome = "returned", !.flags = run[j].flags,
                                 !.mode = run[j].mode,
                                 !.revision = run[j].revision,
                                 !.retmut = MutCount,
                                 !.left = run[j].left, !.done = run[j].done,
                                 !.cut = run[j].cut,
                                 !.halted = run[j].halted,
                                 !.skipped = run[j].skipped,
                                 !.arrow = run[j].arrow]]
    /\ UNCHANGED <<clock, opinions, flags, votes, voteopinions, clients,
                   nticks, nedits, nruns, last, cmd>>

----------------------------------------------------------------------------
(* Failures and interruptions of a run.                                    *)

(* The rows of a sequence of rows, as a set of ids.                        *)
Ids(rows) == {rows[i].id : i \in 1..Len(rows)}

(* The votes linked to opinion id.                                         *)
VotesOf(id) == {v \in 1..Len(votes) : <<v, id>> \in voteopinions}

(* _translate_single_opinion, lines 98-109: the statement the run is at    *)
(* (get_or_create of the client, DataFlagVote.create or                    *)
(* DataFlagVoteOpinion.create) raises a database error.  No transaction    *)
(* encloses the statements of one translation, so what they wrote stays;   *)
(* the exception leaves hypnotoad_vote and vote() and reaches the caller.  *)
WriteFails(j) ==
    /\ run[j].pc \in {"tr_client", "tr_client_ins", "tr_vote", "tr_link"}
    /\ run' = [run EXCEPT ![j] = Raised(j)]
    /\ UNCHANGED <<clock, opinions, flags, votes, voteopinions, clients,
                   nticks, nedits, nruns, last, cmd>>

(* vote() (lines 44-110): the process is stopped at any statement of a     *)
(* run, as often as it happens.  What the run has written stays; the       *)
(* judge's locals are gone.  The first interruption that leaves candidates *)
(* in the queue is remembered: the candidates still in the queue were left *)
(* untouched, the ones with a linked vote of this run were processed.      *)
Interrupt(j) ==
    /\ run[j].pc # "idle"
    /\ LET first == run[j].halted = NoHalt /\ run[j].new_opinions # <<>>
       IN run' = [run EXCEPT ![j] =
                 [IdleRun EXCEPT !.outcome = "interrupted",
                                 !.mode = run[j].mode,
                                 !.revision = run[j].revision,
                                 !.left = IF first THEN Ids(run[j].new_opinions)
                                          ELSE run[j].left,
                                 !.done = IF first
                                          THEN {id \in Ids(run[j].scanned) :
                                                  VotesOf(id) \cap run[j].newVotes # {}}
                                          ELSE run[j].done,
                                 !.cut = IF first THEN Len(votes) ELSE run[j].cut,
                                 !.halted = IF first
                                            THEN [mode |-> run[j].mode,
                                                  revision |-> run[j].revision,
                                                  mut |-> MutCount]
                                            ELSE run[j].halted,
                                 !.skipped = run[j].skipped,
                                 !.arrow = run[j].arrow]]
    /\ UNCHANGED <<clock, opinions, flags, votes, voteopinions, clients,
                   nticks, nedits, nruns, last, cmd>>

(* VotingJudge(mode, revision).vote() again, with the parameters of the    *)
(* interrupted run.                                                        *)
Rerun(j) ==
    /\ run[j].pc = "idle"
    /\ run[j].halted # NoHalt
    /\ run' = [run EXCEPT ![j] =
                 [IdleRun EXCEPT !.pc = "mark", !.mode = run[j].halted.mode,
                                 !.revision = run[j].halted.revision,
                                 !.timestamp =
                                     arrow_timestamp(clock, run[j].arrow),
                                 !.premut = MutCount,
                                 !.left = run[j].left, !.done = run[j].done,
                                 !.cut = run[j].cut,
                                 !.halted = run[j].halted,
                                 !.skipped = run[j].skipped,
                                 !.arrow = run[j].arrow]]
    /\ UNCHANGED <<clock, opinions, flags, votes, voteopinions, clients,
                   nticks, nedits, nruns, last, cmd>>

----------------------------------------------------------------------------
(* The state after construction: empty tables, the judges given, no        *)
(* command in flight.                                                      *)
InitWith(judges) ==
    /\ clock = 2 * max_vote_time
    /\ opinions = <<>>
    /\ flags = <<>>
    /\ votes = <<>>
    /\ voteopinions = {}
    /\ clients = <<>>
    /\ run = judges
    /\ cmd = [t \in Desks |-> NoCmd]
    /\ nticks = 0
    /\ nedits = 0
    /\ nruns = 0
    /\ last = NoCall

Init == \E judges \in [Judges -> NewJudges] : InitWith(judges)

(* Number of writes to the opinion table, clock advances and voting runs   *)
(* so far.                                                                 *)
OpCount == Len(opinions) + nedits + nticks + nruns

(* The statements of the engine, for one judge.                            *)
JudgeStep(j) ==
    \/ HypnotoadMark(j)
    \/ HypnotoadSelect(j)
    \/ HypnotoadStep(j)
    \/ TranslateClient(j)
    \/ TranslateClientInsert(j)
    \/ TranslateVote(j)
    \/ TranslateLink(j)
    \/ VoteReturn(j)

(* Command lines of `cdf opinion create` for opinions of the type that is  *)
(* put to the vote.                                                        *)
Creates(users, decisions, lsds, revisions) ==
    [user : users, decision : decisions, type : VotedTypes, lsd : lsds,
     revision : revisions]

(* The next-state relation for behaviours of at most n operations, with    *)
(* the desks in use and the clock advances, creations, revisions of the    *)
(* runs and edits given.  The commands are entered with --force.  Every statement of a    *)
(* command and of a run is a step of its own, and so is an advance of the  *)
(* clock: any of them may come between any two statements of another       *)
(* process.                                                                *)
NextOf(n, desks, ticks, creates, revisions, edits) ==
    \/ \E d \in ticks :
          OpCount < n /\ Tick(d)
    \/ \E t \in desks, c \in creates :
          OpCount + InFlight < n
             /\ cli_create_opinion(t, c.user, c.decision, c.type, c.lsd,
                                   c.revision, TRUE)
             /\ UNCHANGED last
    \/ \E t \in desks, id \in 1..MaxOpinions, e \in edits :
          OpCount + InFlight < n
             /\ opinion_edit(t, id, e.decision, e.type, e.lsd, e.user, TRUE)
             /\ UNCHANGED last
    \/ \E t \in desks : GetClient(t) /\ UNCHANGED last
    \/ \E t \in desks : InsertClient(t) /\ UNCHANGED last
    \/ \E t \in desks : ReadClock(t) /\ UNCHANGED last
    \/ \E t \in desks, only_save_dirty \in BOOLEAN :
          OpinionSave(t, only_save_dirty) /\ UNCHANGED last
    \/ \E j \in Judges, m \in mode_choices, r \in revisions :
          OpCount + InFlight < n /\ VoteInit(j, m, r)
    \/ \E j \in Judges : HypnotoadMark(j)
    \/ \E j \in Judges : HypnotoadSelect(j)
    \/ \E j \in Judges : HypnotoadStep(j)
    \/ \E j \in Judges : TranslateClient(j)
    \/ \E j \in Judges : TranslateClientInsert(j)
    \/ \E j \in Judges : TranslateVote(j)
    \/ \E j \in Judges : TranslateLink(j)
    \/ \E j \in Judges : VoteReturn(j)

NextWithin(n) ==
    NextOf(n, {1}, TickSteps, Creates(Users, Decisions, LSDs, Revisions), Revisions,
           EditInputs)

Next == NextWithin(MaxOps)

Spec == Init /\ [][Next]_vars

(* Runs one after the other over a ledger of 'good' opinions, entered for  *)
(* one sidereal day, whose lsd is edited, with the clock passing the grace *)
(* window: room for three more operations.                                 *)
LsdEdits == {[NoEdit EXCEPT !.lsd = l] : l \in LSDs}
NextRuns ==
    NextOf(MaxOps + 3, {1}, {max_vote_time + 1},
           Creates(Users, {"good"}, {2111}, Revisions), Revisions, LsdEdits)

SpecRuns == Init /\ [][NextRuns]_vars

(* Runs over a ledger of one revision, in a store that also holds flags    *)
(* entered by hand.                                                        *)
NextFrame ==
    \/ NextOf(MaxOps + 1, {1}, {1}, Creates(Users, {"good", "bad"}, LSDs, {"rA"}),
              {"rA"}, LsdEdits)
    \/ \E t \in FlagTypes, a \in {"2020-01-01T00:00:00Z"}, b \in {"null"} :
          Len(flags) < MaxFlags - 1 /\ cli_create_flag(t, a, b)

SpecFrame == Init /\ [][NextFrame]_vars

(* Runs over a ledger of one revision, where each user enters opinions for *)
(* a sidereal day of their own, with the record of the candidates each run *)
(* passed over switched on.                                                *)
InitSkips ==
    \E judges \in [Judges -> {[r EXCEPT !.skipped.on = TRUE] : r \in NewJudges}] :
       InitWith(judges)

NextSkips ==
    NextOf(MaxOps + 3, {1}, {max_vote_time + 1},
           Creates({"Alice"}, {"good", "bad"}, {2111}, {"rA"})
              \cup Creates({"Bob"}, {"good", "bad"}, {2112}, {"rA"}),
           {"rA"}, LsdEdits)

SpecSkips == InitSkips /\ [][NextSkips]_vars

(* Runs over a ledger of one revision whose candidates are read in any     *)
(* order.                                                                  *)
NextOrder ==
    \/ NextOf(MaxOps + 1, {1}, {max_vote_time + 1},
              Creates(Users, {"good", "bad"}, LSDs, {"rA"}), {"rA"}, LsdEdits)
    \/ \E j \in Judges : HypnotoadSelectReordered(j)

SpecOrder == Init /\ [][NextOrder]_vars

(* Number of calls ended or in flight, and clock advances so far.          *)
AdminOps == last.seq + InFlight + nticks

(* The store without a judge that has run.                                 *)
InitAdmin == InitWith([j \in Judges |-> IdleRun])

(* The ledger as the API and the command line work on it from the desks    *)
(* given, with and without --force, for at most n calls and clock          *)
(* advances; every call that has ended is logged with its arguments and    *)
(* the way it ended.  No voting run.                                       *)
NextLedger(n, desks, ticks, apis, clis, edits) ==
    \/ \E d \in ticks : AdminOps < n /\ Tick(d)
    \/ \E t \in desks, a \in apis, f \in Fracs :
          /\ AdminOps < n
          /\ create_opinion(t, a.user, [s |-> clock, f |-> f], a.decision, a.type,
                            ClientAPI[1], ClientAPI[2], a.lsd, a.revision)
          /\ LET res == create_opinion_result(opinions, a.user, a.decision,
                                              a.type, a.lsd, a.revision)
             IN last' = IF res = "ok" THEN last
                        ELSE Call("create_opinion",
                                  CallArgs(0, a.user, a.decision, a.type, a.lsd,
                                           a.revision), res)
    \/ \E t \in desks, a \in clis, force \in BOOLEAN :
          /\ AdminOps < n
          /\ cli_create_opinion(t, a.user, a.decision, a.type, a.lsd, a.revision,
                                force)
          /\ LET res == cli_create_opinion_result(opinions, a.user, a.decision,
                                                  a.type, a.lsd, a.revision)
             IN last' = IF res = "ok" THEN last
                        ELSE Call("cli_create_opinion",
                                  CallArgs(0, a.user, PyStr(a.decision), a.type,
                                           a.lsd, a.revision), res)
    \/ \E t \in desks, id \in 1..MaxOpinions, e \in edits, force \in BOOLEAN :
          /\ AdminOps < n
          /\ opinion_edit(t, id, e.decision, e.type, e.lsd, e.user, force)
          /\ LET res == opinion_edit_result(opinions, id, e.decision, e.type,
                                            e.lsd, e.user)
             IN last' = IF res = "ok" THEN last
                        ELSE Call("opinion_edit",
                                  CallArgs(id, e.user, PyStr(e.decision), e.type,
                                           e.lsd, None), res)
    \/ \E t \in desks : GetClient(t) /\ UNCHANGED last
    \/ \E t \in desks : InsertClient(t) /\ UNCHANGED last
    \/ \E t \in desks : ReadClock(t) /\ UNCHANGED last
    \/ \E t \in desks, only_save_dirty \in BOOLEAN :
          /\ OpinionSave(t, only_save_dirty)
          /\ last' = Call(cmd[t].op, cmd[t].args,
                          OpinionSaveResult(cmd[t], opinions, only_save_dirty))
    \/ \E t \in desks :
          /\ PromptAbort(t)
          /\ last' = Call(cmd[t].op, cmd[t].args, "Aborted")

(* One desk, every input, valid or not.                                    *)
NextAdmin == NextLedger(MaxCalls, {1}, {1}, ApiInputs, CliInputs, AdminEditInputs)

SpecAdmin == InitAdmin /\ [][NextAdmin]_vars

(* Two desks that work on the opinions of one sidereal day at the same     *)
(* time, with the clock passing a minute: room for one more call.          *)
DeskApiInputs == {ApiBase}
DeskCliInputs == {[CliBase EXCEPT !.user = u] : u \in Users}
DeskEditInputs ==
    {NoEdit, [NoEdit EXCEPT !.decision = "good"], [NoEdit EXCEPT !.lsd = 2112]}
    \cup {[NoEdit EXCEPT !.user = u] : u \in {"Bob", "mallory"}}

NextDesks ==
    NextLedger(MaxCalls + 1, Desks, {max_vote_time + 1}, DeskApiInputs,
               DeskCliInputs, DeskEditInputs)

SpecDesks == InitAdmin /\ [][NextDesks]_vars

(* Flag edits: every pair of --start and --finish, and edits that give one *)
(* more option, acceptable or not; a named option next to --metadata with  *)
(* the same key; options with a value Python takes for false.              *)
FlagEditInputs ==
    {[NoFlagEdit EXCEPT !.start = a, !.finish = b] :
        a \in TimeStrings \cup {None}, b \in TimeStrings \cup {None, "null"}}
    \cup {[NoFlagEdit EXCEPT !.type = y] : y \in FlagTypes \cup {"fX"}}
    \cup {[NoFlagEdit EXCEPT !.instrument = PyStr(i)] : i \in {"pathfinder", "hirax"}}
    \cup {[NoFlagEdit EXCEPT !.description = PyStr(d)] : d \in {"rfi", ""}}
    \cup {[NoFlagEdit EXCEPT !.user = PyStr("Bob")]}
    \cup {[NoFlagEdit EXCEPT !.freq = f] : f \in {PyList(<<3>>), PyList(<<>>), PyStr("3")}}
    \cup {[NoFlagEdit EXCEPT !.inputs = PyList(<<0>>)]}
    \cup {[NoFlagEdit EXCEPT !.metadata = m] :
            m \in {PyDict([description |-> PyStr("sun")]), PyStr("sun")}}
    \cup {[NoFlagEdit EXCEPT !.metadata = PyDict([user |-> PyStr("Alice")]),
                             !.user = PyStr("Bob")]}

(* The flag table as the API and the command line work on it from two      *)
(* desks.                                                                  *)
NextFlags ==
    \/ \E a \in ApiFlagInputs :
          /\ last.seq + FlagEditing < MaxCalls
          /\ api_create_flag(a.type, a.start_time, a.finish_time, a.freq,
                             a.instrument, a.inputs, a.metadata)
    \/ \E t \in FlagTypes, a \in TimeStrings \cup {"null"},
          b \in TimeStrings \cup {"null"} :
          /\ last.seq + FlagEditing < MaxCalls
          /\ cli_create_flag(t, a, b)
    \/ \E t \in Desks, id \in 1..MaxFlags, o \in FlagEditInputs, force \in BOOLEAN :
          /\ last.seq + FlagEditing < MaxCalls
          /\ edit_flag(t, id, o, force)
    \/ \E t \in Desks, only_save_dirty \in BOOLEAN : FlagSave(t, only_save_dirty)
    \/ \E t \in Desks :
          /\ PromptAbort(t)
          /\ last' = Call(cmd[t].op, cmd[t].args, "Aborted")

SpecFlags == InitAdmin /\ [][NextFlags]_vars

(* One stored flag and the reads of its masks.                             *)
InitMask ==
    /\ clock = 2 * max_vote_time
    /\ opinions = <<>>
    /\ flags \in {<<f>> : f \in MaskFlags}
    /\ votes = <<>>
    /\ voteopinions = {}
    /\ clients = <<>>
    /\ run = [j \in Judges |-> IdleRun]
    /\ cmd = [t \in Desks |-> NoCmd]
    /\ nticks = 0
    /\ nedits = 0
    /\ nruns = 0
    /\ last = NoCall

NextMask ==
    \/ \E id \in 1..MaxFlags : last.seq < MaxCalls /\ read_freq_mask(id)
    \/ \E id \in 1..MaxFlags : last.seq < MaxCalls /\ read_input_mask(id)

SpecMask == InitMask /\ [][NextMask]_vars

(* The system with failing writes, interrupted runs and reruns, and with   *)
(* callers that pass any mode name.  An interruption leaves vote(); the    *)
(* ledger and the judges go on as before, further interruptions included.  *)
NextFault ==
    \/ \E d \in TickSteps :
          OpCount < MaxOps /\ Tick(d)
    \/ \E t \in {1}, u \in Users, d \in Decisions, y \in VotedTypes, l \in LSDs,
          r \in Revisions :
          OpCount + InFlight < MaxOps 
             /\ cli_create_opinion(t, u, d, y, l, r, TRUE)
             /\ UNCHANGED last
    \/ \E t \in {1}, id \in 1..MaxOpinions, e \in EditInputs :
          OpCount + InFlight < MaxOps 
             /\ opinion_edit(t, id, e.decision, e.type, e.lsd, e.user, TRUE)
             /\ UNCHANGED last
    \/ \E t \in {1} : GetClient(t) /\ UNCHANGED last
    \/ \E t \in {1} : InsertClient(t) /\ UNCHANGED last
    \/ \E t \in {1} : ReadClock(t) /\ UNCHANGED last
    \/ \E t \in {1}, only_save_dirty \in BOOLEAN :
          OpinionSave(t, only_save_dirty) /\ UNCHANGED last
    \/ \E j \in Judges, m \in ModeNames, r \in Revisions :
          OpCount + InFlight < MaxOps  /\ VoteInit(j, m, r)
    \/ \E j \in Judges : JudgeStep(j)
    \/ \E j \in Judges : WriteFails(j)
    \/ \E j \in Judges : Interrupt(j)
    \/ \E j \in Judges : Rerun(j)

SpecFault == Init /\ [][NextFault]_vars

(* A started run goes on until it returns or raises.  Nothing in the code  *)
(* runs an interrupted vote() again: that is up to the operator.           *)
SpecFaultFair == SpecFault /\ \A j \in Judges : WF_vars(JudgeStep(j))

(* Two processes that each run `cdf opinion vote` on the same store.       *)
Rivals == {1, 2}

InitRace == \E judges \in [Rivals -> NewJudges] : InitWith(judges)

(* The statements of the two runs and of the commands interleave freely:   *)
(* nothing in hypnotoad_vote locks the store (vote.py:50-81).              *)
NextRace ==
    \/ \E t \in {1}, u \in Users, d \in {"good", "bad"}, y \in VotedTypes,
          l \in LSDs :
          OpCount + InFlight < MaxOps + 1
             /\ cli_create_opinion(t, u, d, y, l, "rA", TRUE)
             /\ UNCHANGED last
    \/ \E t \in {1}, id \in 1..MaxOpinions, e \in LsdEdits :
          OpCount + InFlight < MaxOps + 1
             /\ opinion_edit(t, id, e.decision, e.type, e.lsd, e.user, TRUE)
             /\ UNCHANGED last
    \/ \E t \in {1} : GetClient(t) /\ UNCHANGED last
    \/ \E t \in {1} : InsertClient(t) /\ UNCHANGED last
    \/ \E t \in {1} : ReadClock(t) /\ UNCHANGED last
    \/ \E t \in {1}, only_save_dirty \in BOOLEAN :
          OpinionSave(t, only_save_dirty) /\ UNCHANGED last
    \/ \E j \in Rivals, m \in mode_choices :
          OpCount + InFlight < MaxOps + 1 /\ VoteInit(j, m, "rA")
    \/ \E j \in Rivals : JudgeStep(j)

SpecRace == InitRace /\ [][NextRace]_vars

(* Each of the two processes goes on until its run returns or raises.      *)
SpecRaceFair == SpecRace /\ \A j \in Rivals : WF_vars(JudgeStep(j))

----------------------------------------------------------------------------
(* Properties.                                                             *)

(* No opinion was created or edited since the run of judge j started.      *)
Undisturbed(j) == run[j].premut = MutCount

(* The flags a run created for a sidereal day.                             *)
NewFlagsFor(j, lsd) ==
    {f \in run[j].newFlags : flags[f].start_time = csd_to_unix(lsd)}

(* Two opinions of one revision that disagree about one sidereal day.      *)
Disagree(a, b, revision) ==
    /\ a.lsd = b.lsd
    /\ a.revision = revision /\ b.revision = revision
    /\ a.decision # b.decision

(* C11: when a write of a translation has failed, the error has reached    *)
(* the caller, the vote and the flag written for the candidate in flight   *)
(* are no longer in the store, and the votes of the candidates before it   *)
(* are, each with its link.                                                *)
C11_FailureRollsBack ==
    \A j \in Judges :
        run[j].failed # None =>
            /\ run[j].outcome = "raised"
            /\ run[j].vote \notin 1..Len(votes)
            /\ run[j].flag \notin 1..Len(flags)
            /\ \A v \in run[j].newVotes \ {run[j].vote} :
                  /\ v \in 1..Len(votes)
                  /\ \E id \in 1..Len(opinions) : <<v, id>> \in voteopinions

(* An opinion was created or edited since the run of judge j was           *)
(* interrupted.                                                            *)
Disturbed(j) == run[j].halted.mut # MutCount

(* A run of judge j with the parameters of the interrupted run, started    *)
(* after the interruption, ends in this step: it returns or raises.        *)
RerunEnds(j) ==
    /\ run[j].halted # NoHalt
    /\ run[j].pc # "idle" /\ run'[j].pc = "idle"
    /\ run[j].mode = run[j].halted.mode
    /\ run[j].revision = run[j].halted.revision
    /\ run'[j].outcome \in {"returned", "raised"}

(* C12: when vote() is run again and again with the parameters of an       *)
(* interrupted run and such runs end again and again, and the ledger is    *)
(* not written to meanwhile, every candidate the interrupted run left      *)
(* untouched eventually has a vote written after the interruption, and no  *)
(* candidate the interrupted run had processed gets another vote.          *)
C12_Resumability ==
    \A j \in Judges :
        []<><<RerunEnds(j)>>_vars =>
            /\ \A id \in 1..MaxOpinions :
                  (id \in run[j].left)
                  ~> (Disturbed(j) \/ \E v \in VotesOf(id) : v > run[j].cut)
            /\ [](\A id \in run[j].done :
                      Disturbed(j) \/ \A v \in VotesOf(id) : v <= run[j].cut)

(* C13: a judge exists only for a registered mode name of at most 32       *)
(* characters, and a construction that raised for the mode name has not    *)
(* touched the store.                                                      *)
C13_ModeValidation ==
    [][\A j \in Judges :
         /\ run'[j].pc # "idle" =>
               /\ run'[j].mode \in mode_choices
               /\ Len(run'[j].mode) <= max_len_mode_name
         /\ (/\ run'[j] # run[j]
             /\ run'[j].outcome \in {"RuntimeError", "UserWarning"})
            => /\ run'[j].pc = "idle"
               /\ UNCHANGED <<opinions, flags, votes, voteopinions, clients>>]_vars

C13_Witness ==
    \E j \in Judges :
        /\ run[j].outcome = "RuntimeError"
        /\ Len(run[j].mode) > max_len_mode_name
        /\ run[j].mode \notin mode_choices
        /\ opinions # <<>>

(* A call was made in this step.                                           *)
Called(op) == last'.seq # last.seq /\ last'.op = op

(* The command at desk t ends in this step.                                *)
Ends(t) == cmd[t].pc # "idle" /\ cmd'[t].pc = "idle"

(* The key a creation call asks for: the API capitalises the user name.    *)
CallKey(c) ==
    <<c.args.type,
      IF c.op = "create_opinion" THEN capitalize(c.args.user) ELSE c.args.user,
      c.args.lsd, c.args.revision>>

(* The decision a creation call asks for, when it is one of the enum.      *)
CallDecision(c) ==
    IF c.op = "create_opinion"
    THEN (IF c.args.decision.py = "str" /\ c.args.decision.v \in Decisions
          THEN c.args.decision.v ELSE "BadParameter")
    ELSE click_choice(c.args.decision.v)

(* A time of the opinion table in tenths of a second.                      *)
Tenths(sec, frac) == sec * 10 + frac

(* C14: no two opinions have the same (type, user, lsd, revision).         *)
C14_OpinionUniqueness ==
    \A a \in 1..Len(opinions), b \in 1..Len(opinions) :
        a # b => UniqueKey(opinions[a]) # UniqueKey(opinions[b])

C14_Witness ==
    /\ last.op = "opinion_edit" /\ last.result = "IntegrityError"
    /\ Len(opinions) = 2
    /\ (last.args.type # None \/ last.args.lsd # 0)

(* A creation call ends in this step with its INSERT, not at the prompt of *)
(* a command entered without --force.                                      *)
CreateEnds ==
    /\ Called("create_opinion") \/ Called("cli_create_opinion")
    /\ last'.result # "Aborted"

(* C15, as stated: a creation call (API or command line) with a valid      *)
(* decision for a key that already has an opinion succeeds, inserts no row *)
(* and leaves that opinion with the new decision and a last_edit that is   *)
(* not earlier than before.                                                *)
C15_DuplicateCreateIsUpdate ==
    [][\A k \in 1..Len(opinions) :
         (/\ CreateEnds
          /\ CallDecision(last') \in Decisions
          /\ UniqueKey(opinions[k]) = CallKey(last'))
         => /\ last'.result = "ok"
            /\ Len(opinions') = Len(opinions)
            /\ opinions'[k].decision = CallDecision(last')
            /\ Tenths(opinions'[k].last_edit, opinions'[k].last_edit_frac)
                  >= Tenths(opinions[k].last_edit, opinions[k].last_edit_frac)]_vars

(* C15, amended: a creation call with a valid decision whose key has an    *)
(* opinion when the call comes to its INSERT fails with IntegrityError,    *)
(* inserts no row and leaves every opinion as it was.                      *)
C15_DuplicateCreateFails ==
    [][\A k \in 1..Len(opinions) :
         (/\ CreateEnds
          /\ CallDecision(last') \in Decisions
          /\ UniqueKey(opinions[k]) = CallKey(last'))
         => /\ last'.result = "IntegrityError"
            /\ opinions' = opinions]_vars

C15_Witness ==
    /\ last.op \in {"create_opinion", "cli_create_opinion"}
    /\ last.result = "IntegrityError"
    /\ \E k \in 1..Len(opinions) :
          /\ UniqueKey(opinions[k]) = CallKey(last)
          /\ opinions[k].decision # CallDecision(last)

(* C16: every opinion has last_edit >= creation_time, and no step lowers   *)
(* the last_edit of an opinion.                                            *)
C16_MonotonicEdit ==
    [][\A id \in 1..Len(opinions') :
         /\ Tenths(opinions'[id].last_edit, opinions'[id].last_edit_frac)
               >= Tenths(opinions'[id].creation_time, opinions'[id].creation_frac)
         /\ id <= Len(opinions) =>
               Tenths(opinions'[id].last_edit, opinions'[id].last_edit_frac)
                 >= Tenths(opinions[id].last_edit, opinions[id].last_edit_frac)]_vars

(* C17, as stated: no step changes the user of an opinion, and an edit     *)
(* that names a user fails and leaves the opinions as they were.           *)
C17_NoUserReassignment ==
    [][/\ \A id \in 1..Len(opinions) : opinions'[id].user = opinions[id].user
       /\ (Called("opinion_edit") /\ last'.args.user # None)
          => (last'.result # "ok" /\ opinions' = opinions)]_vars

(* C17, amended: an edit that names a user who is not in the user table    *)
(* fails and leaves the opinions as they were; an edit that names a user   *)
(* and succeeds has set the opinion's user to the named one; the user of   *)
(* an opinion is changed by nothing but the save of an edit of that        *)
(* opinion, to the user the edit names or, when it names none, to the user *)
(* the opinion had when the edit read it.                                  *)
C17_UserReassignment ==
    [][/\ (Called("opinion_edit") /\ last'.args.user # None)
          => /\ last'.args.user \notin Users
                  => (last'.result = "BadParameter" /\ opinions' = opinions)
             /\ last'.result = "ok"
                  => opinions'[last'.args.id].user = last'.args.user
       /\ \A id \in 1..Len(opinions) :
             opinions'[id].user # opinions[id].user
             => /\ Called("opinion_edit") /\ last'.args.id = id
                /\ opinions'[id].user \in Users
                /\ last'.args.user # None
                      => opinions'[id].user = last'.args.user
                /\ last'.args.user = None
                      => \E t \in Desks :
                            /\ Ends(t) /\ cmd[t].args = last'.args
                            /\ opinions'[id].user = cmd[t].row.user]_vars

C17_Witness ==
    /\ last.op = "opinion_edit" /\ last.result = "BadParameter"
    /\ last.args.user = "mallory"
    /\ last.args.id \in 1..Len(opinions)

(* C18: an API creation whose decision is not one of the strings of the    *)
(* enum ended in ValidationError, and every stored decision is one of      *)
(* 'good', 'bad', 'unsure'.                                                *)
C18_DecisionEnum ==
    /\ \A id \in 1..Len(opinions) : opinions[id].decision \in Decisions
    /\ (/\ last.op = "create_opinion"
        /\ (last.args.decision.py # "str" \/ last.args.decision.v \notin Decisions))
       => last.result = "ValidationError"

C18_Witness ==
    /\ last.op = "create_opinion"
    /\ last.args.decision = PyTrue
    /\ last.result = "ValidationError"
    /\ opinions # <<>>

(* C19: an API creation that fails has written to no table: not in the     *)
(* step it fails in, and not before.                                       *)
C19_RejectedInputMutatesNothing ==
    [][(Called("create_opinion") /\ last'.result # "ok")
       => /\ UNCHANGED <<opinions, flags, votes, voteopinions, clients>>
          /\ \A t \in Desks :
                (Ends(t) /\ cmd[t].op = "create_opinion") => ~cmd[t].created]_vars

(* C20: every flag with a finish_time has finish_time >= start_time.       *)
C20_FlagTimeOrder ==
    \A f \in 1..Len(flags) :
        flags[f].finish_time # NULL => flags[f].finish_time >= flags[f].start_time

(* C1: a run over a store whose only opinion is 'bad' for the run's        *)
(* revision, with no vote before it, adds exactly one flag and one vote,   *)
(* the vote references the flag and one link ties the vote to the opinion. *)
C1_UnanimitySingleOpinion ==
    \A j \in Judges :
        (/\ LoopDone(j) /\ Undisturbed(j)
         /\ Len(opinions) = 1
         /\ opinions[1].decision = "bad"
         /\ opinions[1].revision = run[j].revision
         /\ Len(votes) = Cardinality(run[j].newVotes))
        => /\ Cardinality(run[j].newFlags) = 1
           /\ Cardinality(run[j].newVotes) = 1
           /\ \A v \in run[j].newVotes :
                 /\ votes[v].flag \in run[j].newFlags
                 /\ voteopinions = {<<v, 1>>}

(* C2: while the store holds two opinions of the run's revision that       *)
(* disagree about a sidereal day, the run has created no flag for that day.*)
C2_VetoOnDisagreement ==
    \A j \in Judges :
        Undisturbed(j) =>
            \A a \in 1..Len(opinions), b \in 1..Len(opinions) :
                Disagree(opinions[a], opinions[b], run[j].revision)
                => NewFlagsFor(j, opinions[a].lsd) = {}

C2_Witness ==
    \E j \in Judges :
        /\ LoopDone(j) /\ Undisturbed(j)
        /\ \E a \in 1..Len(opinions), b \in 1..Len(opinions) :
              /\ Disagree(opinions[a], opinions[b], run[j].revision)
              /\ opinions[a].decision = "bad"
              /\ {a, b} \subseteq Ids(run[j].scanned)

(* C3: a run whose loop is over has given every candidate it scanned       *)
(* exactly one vote with exactly one link.                                 *)
C3_OneVotePerCandidate ==
    \A j \in Judges :
        LoopDone(j) =>
            \A id \in Ids(run[j].scanned) :
                Cardinality(VotesOf(id) \cap run[j].newVotes) = 1

(* C4: a run for the revision of the run before it, with no opinion        *)
(* created or edited since that run returned, ends with the empty list to  *)
(* return and has added no flag and no vote.                               *)
C4_Idempotence ==
    \A j \in Judges :
        (/\ LoopDone(j)
         /\ run[j].prev.revision = run[j].revision
         /\ run[j].prev.mut = MutCount)
        => /\ run[j].flags = <<>>
           /\ run[j].newFlags = {}
           /\ run[j].newVotes = {}

C4_Witness ==
    \E j \in Judges :
        /\ LoopDone(j)
        /\ run[j].prev.revision = run[j].revision
        /\ run[j].prev.mut = MutCount
        /\ run[j].scanned # <<>>
        /\ votes # <<>>

(* C5: an opinion with two votes of one mode was edited after the time of  *)
(* the earlier vote.                                                       *)
C5_NoReconsideration ==
    \A id \in 1..Len(opinions) :
        \A w \in VotesOf(id), v \in VotesOf(id) :
            (w < v /\ votes[w].mode = votes[v].mode)
            => opinions[id].last_edit > votes[w].time

(* C6: a run creates at most one flag per sidereal day.                    *)
C6_AtMostOneFlagPerLSD ==
    \A j \in Judges : \A lsd \in LSDs : Cardinality(NewFlagsFor(j, lsd)) <= 1

C6_Witness ==
    \E j \in Judges :
        /\ LoopDone(j) /\ Undisturbed(j)
        /\ \E a \in Ids(run[j].scanned), b \in Ids(run[j].scanned) :
              /\ a # b
              /\ opinions[a].lsd = opinions[b].lsd
              /\ opinions[a].decision = "bad" /\ opinions[b].decision = "bad"

(* C7: a candidate whose only disagreeing opinions about its sidereal day  *)
(* belong to other revisions is translated by a run for its revision.      *)
C7_ConflictIsolation ==
    \A j \in Judges :
        (LoopDone(j) /\ Undisturbed(j)) =>
            \A a \in Ids(run[j].scanned) :
                (/\ \E b \in 1..Len(opinions) :
                       /\ opinions[b].lsd = opinions[a].lsd
                       /\ opinions[b].decision # opinions[a].decision
                       /\ opinions[b].revision # run[j].revision
                 /\ \A b \in 1..Len(opinions) :
                       (b # a /\ opinions[b].lsd = opinions[a].lsd)
                       => opinions[b].revision # run[j].revision)
                => VotesOf(a) \cap run[j].newVotes # {}

(* The translation of the run's current candidate is over.                 *)
Translated(j) ==
    /\ run[j].opinion.id # 0
    /\ run[j].pc \in {"idle", "loop"}

(* C8: a finished translation has created a flag, referenced by its vote,  *)
(* if and only if the opinion's decision is 'bad'.                         *)
C8_OnlyBadMakesFlag ==
    \A j \in Judges :
        Translated(j) =>
            /\ run[j].vote \in 1..Len(votes)
            /\ votes[run[j].vote].flag = run[j].flag
            /\ (run[j].opinion.decision = "bad") <=> (run[j].flag \in run[j].newFlags)
            /\ (run[j].opinion.decision # "bad") => run[j].flag = 0

(* C9: the list a run is about to return holds exactly the flags the run   *)
(* created.                                                                *)
C9_ReturnValue ==
    \A j \in Judges :
        LoopDone(j) =>
            /\ Len(run[j].flags) = Cardinality(run[j].newFlags)
            /\ \A i \in 1..Len(run[j].flags) : run[j].flags[i] \in run[j].newFlags

(* C10: every flag of type 'vote' is referenced by a vote and every vote   *)
(* has a link to an opinion.                                               *)
C10_Atomicity ==
    /\ \A f \in 1..Len(flags) :
          flags[f].type = "vote" => \E v \in 1..Len(votes) : votes[v].flag = f
    /\ \A v \in 1..Len(votes) : \E id \in 1..Len(opinions) : <<v, id>> \in voteopinions

(* C22: freq_mask of a flag with a freq list is True at exactly the        *)
(* indices of the list and False elsewhere; input_mask of a flag with an   *)
(* instrument and an inputs list does the same over the inputs of the      *)
(* instrument; without the list the mask is True everywhere.               *)
C22_MaskInversion ==
    /\ last.op = "freq_mask" =>
          LET md == flags[last.args.id].metadata
          IN /\ last.result.result = "ok"
             /\ DOMAIN last.result.mask = 0..(n_freq - 1)
             /\ \A i \in 0..(n_freq - 1) :
                   last.result.mask[i] <=>
                      ("freq" \in DOMAIN md =>
                           \E k \in 1..Len(md.freq.v) : md.freq.v[k] = i)
    /\ (/\ last.op = "input_mask"
        /\ "instrument" \in DOMAIN flags[last.args.id].metadata)
       => LET md == flags[last.args.id].metadata
              n == inp_dict[md.instrument.v]
          IN ("inputs" \in DOMAIN md =>
                  \A k \in 1..Len(md.inputs.v) : md.inputs.v[k] \in 0..(n - 1))
             => /\ last.result.result = "ok"
                /\ DOMAIN last.result.mask = 0..(n - 1)
                /\ \A i \in 0..(n - 1) :
                      last.result.mask[i] <=>
                         ("inputs" \in DOMAIN md =>
                              \E k \in 1..Len(md.inputs.v) : md.inputs.v[k] = i)

C22_Witness ==
    /\ last.op = "freq_mask"
    /\ "freq" \in DOMAIN flags[last.args.id].metadata
    /\ flags[last.args.id].metadata.freq.v = <<3, 5>>
    /\ last.result.mask[3] /\ last.result.mask[5] /\ ~last.result.mask[4]

(* The flag a successful create_flag call has just stored.                 *)
StoredFlag == flags'[Len(flags')]

(* The keys of the metadata argument of the latest call.                   *)
ExtraKeys == IF last'.args.metadata.py = "dict" THEN DOMAIN last'.args.metadata.v ELSE {}

(* C23, as stated: a successful create_flag call has stored one flag with  *)
(* the given type, start_time and finish_time, whose metadata has exactly  *)
(* the keys the caller supplied (freq, instrument and inputs when given    *)
(* and not None, and the keys of the metadata argument), each with a value *)
(* the caller gave for it.                                                 *)
C23_FlagRoundTrip ==
    [][(Called("create_flag") /\ last'.result = "ok")
       => LET a == last'.args
              named == {k \in {"freq", "instrument", "inputs"} :
                          a[k].py \notin {"NoneType", "unset"}}
          IN /\ Len(flags') = Len(flags) + 1
             /\ StoredFlag.type = a.type
             /\ StoredFlag.start_time = a.start_time
             /\ StoredFlag.finish_time = a.finish_time
             /\ DOMAIN StoredFlag.metadata = named \cup ExtraKeys
             /\ \A k \in DOMAIN StoredFlag.metadata :
                   \/ k \in named /\ StoredFlag.metadata[k] = a[k]
                   \/ k \in ExtraKeys /\ StoredFlag.metadata[k] = a.metadata.v[k]]_vars

(* C23, amended: the metadata has the keys freq, instrument and inputs of  *)
(* the arguments that are not None, the instrument being 'chime' when the  *)
(* caller leaves it out, and the keys of the metadata argument, whose      *)
(* values go before the named arguments; it has no other key.              *)
C23_FlagRoundTripDefaults ==
    [][(Called("create_flag") /\ last'.result = "ok")
       => LET a == last'.args
              named == {k \in {"freq", "instrument", "inputs"} : a[k].py # "NoneType"}
          IN /\ Len(flags') = Len(flags) + 1
             /\ StoredFlag.type = a.type
             /\ StoredFlag.start_time = a.start_time
             /\ StoredFlag.finish_time = a.finish_time
             /\ DOMAIN StoredFlag.metadata = named \cup ExtraKeys
             /\ \A k \in DOMAIN StoredFlag.metadata :
                   StoredFlag.metadata[k] =
                      IF k \in ExtraKeys THEN a.metadata.v[k]
                      ELSE IF a[k].py = "unset" THEN PyStr("chime")
                      ELSE a[k]]_vars

C23_Witness ==
    /\ last.op = "create_flag" /\ last.result = "ok"
    /\ last.args.freq = PyList(<<3, 5>>)
    /\ last.args.metadata = PyDict([freq |-> PyList(<<7>>)])
    /\ flags[Len(flags)].metadata.freq = PyList(<<7>>)
    /\ flags[Len(flags)].metadata.instrument = PyStr("chime")

(* C30: a flag edit of an existing flag with --finish null succeeds, sets  *)
(* the finish_time of the flag to null and leaves its type and metadata,   *)
(* its start_time unless --start is given, and every other flag as they    *)
(* were.                                                                   *)
C30_OpenEndedViaEdit ==
    [][(/\ Called("edit_flag")
        /\ last'.args.finish = "null"
        /\ last'.args.id \in 1..Len(flags))
       => /\ last'.result = "ok"
          /\ flags' = [flags EXCEPT
                         ![last'.args.id].finish_time = NULL,
                         ![last'.args.id].start_time =
                             IF last'.args.start # None
                             THEN arrow_get(last'.args.start) ELSE @]]_vars

(* The greatest element of a non-empty set of numbers.                     *)
SetMax(S) == CHOOSE m \in S : \A x \in S : x <= m

(* The times of the votes of a mode, every revision included.              *)
TimesOfMode(mode) == {votes[v].time : v \in {w \in 1..Len(votes) : votes[w].mode = mode}}

(* C24: the mark a run reads is the greatest time of the votes of its mode *)
(* minus 60, or 0 without such a vote; the candidates it reads are exactly *)
(* the opinions of its revision with last_edit >= the mark; every link it  *)
(* writes is to an opinion of its revision.                                *)
C24_CandidateSet ==
    [][\A j \in Judges :
         /\ (run[j].pc = "mark" /\ run'[j].pc = "select")
            => run'[j].last_vote_time =
                  IF TimesOfMode(run[j].mode) = {} THEN 0
                  ELSE SetMax(TimesOfMode(run[j].mode)) - max_vote_time
         /\ (run[j].pc = "select" /\ run'[j].pc = "loop")
            => /\ Ids(run'[j].new_opinions) =
                     {i \in 1..Len(opinions) :
                         /\ opinions[i].revision = run[j].revision
                         /\ opinions[i].last_edit >= run[j].last_vote_time}
               /\ \A k \in 1..Len(run'[j].new_opinions) :
                     run'[j].new_opinions[k] = opinions[run'[j].new_opinions[k].id]
         /\ (run[j].pc = "tr_link" /\ run'[j].pc = "loop")
            => \A l \in voteopinions' \ voteopinions :
                  opinions[l[2]].revision = run[j].revision]_vars

C24_Witness ==
    \E j \in Judges :
        /\ run[j].pc = "loop"
        /\ run[j].last_vote_time > 0
        /\ run[j].scanned # <<>>
        /\ \E i \in 1..Len(opinions) :
              /\ opinions[i].revision = run[j].revision
              /\ opinions[i].last_edit < run[j].last_vote_time
              /\ i \notin Ids(run[j].scanned)

(* C26: the timestamp of a run is the clock at its start; a vote written   *)
(* by the run has the mode and the revision of the run and that timestamp  *)
(* as its time, so all votes of one run share one time; and when the vote  *)
(* is linked to its opinion, its lsd is the lsd of that opinion as the     *)
(* store holds it.                                                         *)
C26_VoteProvenance ==
    [][\A j \in Judges :
         /\ (run[j].pc = "idle" /\ run'[j].pc = "mark")
            => run'[j].timestamp.v = clock
         /\ (run[j].pc = "tr_vote" /\ run'[j].pc = "tr_link")
            => /\ Len(votes') = Len(votes) + 1
               /\ votes'[Len(votes')].mode = run[j].mode
               /\ votes'[Len(votes')].revision = run[j].revision
               /\ votes'[Len(votes')].time = run[j].timestamp.v
         /\ (run[j].pc = "tr_link" /\ run'[j].pc = "loop")
            => /\ voteopinions' \ voteopinions = {<<run[j].vote, run[j].opinion.id>>}
               /\ votes'[run[j].vote].lsd = opinions'[run[j].opinion.id].lsd
         /\ \A v \in run'[j].newVotes, w \in run'[j].newVotes :
               votes'[v].time = votes'[w].time]_vars

(* The rows of table a are the first rows of table b.                      *)
Extends(a, b) == Len(a) <= Len(b) /\ SubSeq(b, 1, Len(a)) = a

(* The rows of the client table that are the one of the voting module.    *)
VoteClients(table) == {i \in 1..Len(table) : table[i] = ClientVote}

(* C25: a step of a voting run leaves every opinion as it was, keeps every *)
(* flag, vote, link and client row that was there, and adds no client row  *)
(* but the one of the voting module, which the runs of one process add at  *)
(* most once.                                                              *)
C25_VotingFrame ==
    [][run' # run
       => /\ opinions' = opinions
          /\ Extends(flags, flags')
          /\ Extends(votes, votes')
          /\ voteopinions \subseteq voteopinions'
          /\ Extends(clients, clients')
          /\ \A i \in (Len(clients) + 1)..Len(clients') : clients'[i] = ClientVote
          /\ Cardinality(VoteClients(clients')) <= Cardinality(Judges)]_vars

C25_Witness ==
    \E j \in Judges :
        /\ run[j].pc = "loop"
        /\ run[j].newVotes # {}
        /\ \A v \in run[j].newVotes : \E id \in 1..Len(opinions) : <<v, id>> \in voteopinions
        /\ flags # <<>>
        /\ Len(opinions) = 2
        /\ clients = <<ClientCLI, ClientVote>>

(* A row of the passed-over record that is still in the ledger as it was   *)
(* when the run read it, and still counted by its own conflict query.      *)
StillContested(o) ==
    /\ o.id <= Len(opinions)
    /\ opinions[o.id] = o
    /\ hypnotoad_step(o, opinions) = "skip"

(* C29, as stated: the step that passes a candidate over writes no vote    *)
(* and no link, and every later candidate query for the revision returns   *)
(* each passed-over opinion that is still contested and was not edited.    *)
C29_SkipReprocessing ==
    [][\A j \in Judges :
          /\ run'[j].skipped # run[j].skipped
                => votes' = votes /\ voteopinions' = voteopinions
          /\ run[j].pc = "select" /\ run'[j].pc = "loop"
                => \A o \in run[j].skipped.rows :
                      o.revision = run[j].revision /\ StillContested(o)
                        => o.id \in Ids(run'[j].new_opinions)]_vars

(* C29, amended: the step that passes a candidate over writes no vote and  *)
(* no link, and a later candidate query for the revision returns a         *)
(* passed-over, still contested, unedited opinion exactly when its last    *)
(* edit is not older than the low-water mark of that run.                  *)
C29_SkipReprocessingWithinMark ==
    [][\A j \in Judges :
          /\ run'[j].skipped # run[j].skipped
                => votes' = votes /\ voteopinions' = voteopinions
          /\ run[j].pc = "select" /\ run'[j].pc = "loop"
                => \A o \in run[j].skipped.rows :
                      o.revision = run[j].revision /\ StillContested(o)
                        => (o.id \in Ids(run'[j].new_opinions)
                              <=> o.last_edit >= run[j].last_vote_time)]_vars

(* A later run whose candidates leave out an opinion that an earlier run   *)
(* passed over, that has no vote, was not edited and is still contested,   *)
(* next to one that is a candidate again.                                  *)
C29_Witness ==
    \E j \in Judges :
       /\ run[j].pc = "loop"
       /\ \E o \in run[j].skipped.rows :
             /\ o.revision = run[j].revision
             /\ StillContested(o)
             /\ VotesOf(o.id) = {}
             /\ o.id \notin Ids(run[j].scanned)
       /\ \E o \in run[j].skipped.rows :
             /\ o.revision = run[j].revision
             /\ StillContested(o)
             /\ o.id \in Ids(run[j].scanned)

(* What the run of judge j has done with its candidates when its loop is   *)
(* over: the decision per candidate, the opinions with a vote of this run  *)
(* and the start times of the flags of this run.                           *)
RunResult(j) ==
    LET voted == {id \in Ids(run[j].scanned) :
                    VotesOf(id) \cap run[j].newVotes # {}}
        flagged == {id \in voted :
                      \E v \in VotesOf(id) \cap run[j].newVotes :
                         votes[v].flag # 0}
    IN [decisions |-> {<<id, IF id \in flagged THEN "flag"
                             ELSE IF id \in voted THEN "noflag"
                             ELSE "skip">> : id \in Ids(run[j].scanned)},
        votes |-> voted,
        flags |-> {flags[f].start_time : f \in run[j].newFlags}]

(* C27: while nobody else writes to the opinion table, the decisions, the  *)
(* votes and the flags of a run are the same for every order of its        *)
(* candidates, and they are what the run has done when its loop is over.   *)
C27_OrderIndependence ==
    \A j \in Judges :
       run[j].pc = "loop" /\ Undisturbed(j)
         => /\ \A rows \in Orders(run[j].scanned) :
                  hypnotoad_vote(rows, opinions)
                    = hypnotoad_vote(run[j].scanned, opinions)
            /\ LoopDone(j)
                  => RunResult(j) = hypnotoad_vote(run[j].scanned, opinions)

(* A run that read two candidates of different decisions and sidereal days *)
(* in the reverse order of their ids and has processed both, the opinion   *)
(* table unchanged since the run started.                                  *)
C27_Witness ==
    \E j \in Judges :
       /\ LoopDone(j) /\ Undisturbed(j)
       /\ Len(run[j].scanned) = 2
       /\ run[j].scanned[1].id > run[j].scanned[2].id
       /\ run[j].scanned[1].decision # run[j].scanned[2].decision
       /\ run[j].scanned[1].lsd # run[j].scanned[2].lsd

(* Both runs, of one mode and revision, have read the low-water mark and   *)
(* their candidates before either wrote a vote, opinion id is a candidate  *)
(* both still hold, it is in the ledger as both read it, and no opinion of *)
(* another decision is about its sidereal day.                             *)
Racing(id) ==
    /\ \A j \in Rivals :
          /\ run[j].pc = "loop"
          /\ run[j].newVotes = {}
          /\ \E i \in 1..Len(run[j].new_opinions) :
                /\ run[j].new_opinions[i].id = id
                /\ run[j].new_opinions[i] = opinions[id]
    /\ run[1].mode = run[2].mode
    /\ run[1].revision = run[2].revision
    /\ more_opinions_conj(opinions[id], opinions) = 0

(* C28: when two runs race for an opinion, then, unless the ledger is      *)
(* written to meanwhile, the opinion ends up with two votes, and with two  *)
(* flags when its decision is 'bad'.                                       *)
C28_ConcurrentDuplicates ==
    \A id \in 1..MaxOpinions : \A m \in 0..(MaxOps + 1) :
       (id <= Len(opinions) /\ Racing(id) /\ MutCount = m)
       ~> \/ MutCount # m
          \/ /\ Cardinality(VotesOf(id)) >= 2
             /\ opinions[id].decision = "bad"
                   => Cardinality({votes[v].flag : v \in VotesOf(id)} \ {0}) >= 2

====
